---- MODULE Spec2Model ----
(***************************************************************************)
(* Thermal Eye backend: the sliding-window request limiters                *)
(* (app/middleware/rate_limit.py), the request path of the ingestion       *)
(* endpoints (app/main.py) and the pure analysis functions                 *)
(* (dynamic threshold, fault classification).                              *)
(*                                                                         *)
(* Temperatures are exact decimals counted in thousandths of a degree      *)
(* (5.0 degrees = 5000); times are whole clock ticks.                      *)
(***************************************************************************)
EXTENDS Integers, Sequences, FiniteSets, TLC

VARIABLES
    now,        \* the clock read by time.time()
    mw_clients, \* RateLimitMiddleware.clients: identity -> list of timestamps
    up_clients, \* upload_rate_limit.clients:   identity -> list of timestamps
    pc,         \* per handler: the statement it is about to run
    req,        \* per handler: the request it serves
    t,          \* per handler: the local `now` of the running check
    kept,       \* per handler: the list built by the purge comprehension
    before,     \* history, per handler: the list as the running check found it
    resp,       \* the response sent last
    passed,     \* per handler: the limiters that admitted its request
    running,    \* the handler that holds the event loop, or NoHandler
    mw_recent,  \* history: admissions of the middleware within the last period
    up_recent,  \* history: admissions of the upload limiter within the last period
    call,       \* analysis: the pending call of a function, or NoCall
    out,        \* analysis: the value the last call returned
    ocr_reader, \* the global ocr_reader of main.py: "None" or "Reader"
    users,      \* the rows of the users table, in the order of their ids
    job,        \* per handler: the protected request it serves and its locals
    disk,       \* the image files in UPLOAD_FOLDER
    reports,    \* thermal_reports: the image_path of each committed row
    next_id,    \* the number of the next image file (uuid4)
    readers_built \* history: the easyocr.Reader objects constructed so far

limVars == <<now, mw_clients, up_clients, pc, req, t, kept, before, resp, passed,
             running, mw_recent, up_recent>>
anaVars == <<call, out>>
uplVars == <<job, disk, reports, next_id>>
appVars == <<ocr_reader, users, readers_built, uplVars>>
vars == <<now, mw_clients, up_clients, pc, req, t, kept, before, resp, passed,
          running, mw_recent, up_recent, call, out, ocr_reader, users, job, disk,
          reports, next_id, readers_built>>

(***************************************************************************)
(* Bounds of the model.  The limiter classes are parametric in             *)
(* (calls, period); the deployed instances (60, 60) and (10, 60) are       *)
(* modelled by instances with small parameters that keep the general       *)
(* limit above the ingestion limit.                                        *)
(***************************************************************************)
NumHandlers == 2
MaxTime == 2
MwCalls == 2
UploadCalls == 1
Period == 2

Handlers == 1..NumHandlers
NoHandler == NumHandlers + 1

\* RateLimitMiddleware(app, calls, period) and EndpointRateLimit(calls, period)
mw_limit == [calls |-> MwCalls, period |-> Period]
upload_rate_limit == [calls |-> UploadCalls, period |-> Period]

(***************************************************************************)
(* Requests.  xff is the X-Forwarded-For header as the list of its         *)
(* comma-separated entries (<<>> when absent), host is request.client.host *)
(* ("" when request.client is None).                                       *)
(***************************************************************************)
UserAgents == {"Mozilla/5.0", "testclient"}
Endpoints == {"/", "/upload", "/upload_batch"}
Ingestion == {"/upload", "/upload_batch"}
Peers == { [xff |-> <<>>, host |-> "10.0.0.1"],
           [xff |-> <<"10.0.0.2", "10.0.0.9">>, host |-> "10.0.0.1"],
           [xff |-> <<>>, host |-> ""] }
Identities == {"10.0.0.1", "10.0.0.2", "unknown"}

\* path is filled in when the router resolves the route (inside call_next); no
\* statement before that reads it.
RequestsOf(peers) == { [xff |-> p.xff, host |-> p.host, ua |-> u, path |-> ""] :
                         p \in peers, u \in UserAgents }
Requests == RequestsOf(Peers)
\* the requests of one client that connects directly
DirectRequests == RequestsOf({p \in Peers : p.xff = <<>> /\ p.host # ""})
NoRequest == [xff |-> <<>>, host |-> "", ua |-> "", path |-> ""]

\* faulty variant: every request is counted in one bucket
get_client_ip_shared(request) == "unknown"

\* get_client_ip (the same code in both classes)
get_client_ip(request) ==
    IF request.xff # <<>> THEN Head(request.xff)
    ELSE IF request.host # "" THEN request.host ELSE "unknown"

\* "testclient" in user_agent.lower()
is_testclient(request) == request.ua = "testclient"

NoResp == [status_code |-> 0]
Ok == [status_code |-> 200]

\* f"{n}"
str(n) == ToString(n)

\* faulty variant: retry_after carries the call limit instead of the period
rate_limit_error_retry_calls(lim) ==
    [status_code |-> 429,
     detail |-> [error |-> <<"Rate", "limit", "exceeded">>,
                 message |-> <<"Too", "many", "requests.", "Limit:", ToString(lim.calls),
                               "requests", "per", ToString(lim.period), "seconds">>,
                 retry_after |-> lim.calls]]

\* HTTPException(status_code=429, detail={"error", "message", "retry_after"});
\* the message is the text of the f-string, word by word
rate_limit_error(lim) ==
    [status_code |-> 429,
     detail |-> [error |-> <<"Rate", "limit", "exceeded">>,
                 message |-> <<"Too", "many", "requests.", "Limit:", str(lim.calls),
                               "requests", "per", str(lim.period), "seconds">>,
                 retry_after |-> lim.period]]

\* HTTPException(status_code=400, ...) of validate_uploaded_file
invalid_file_error == [status_code |-> 400]

\* faulty variant: a timestamp exactly one period old is kept
purge_keeps_boundary(list, time, period) == SelectSeq(list, LAMBDA ts : time - ts <= period)

\* faulty variant: nothing is ever purged
purge_nothing(list, time, period) == list

\* [timestamp for timestamp in clients[ip] if now - timestamp < period]
purge(list, time, period) == SelectSeq(list, LAMBDA ts : time - ts < period)

\* faulty variant: the count is compared with > instead of >=
exceeded_off_by_one(list, lim) == Len(list) > lim.calls

\* len(self.clients[client_ip]) >= self.calls
exceeded(list, lim) == Len(list) >= lim.calls

\* faulty variant: every statement is a suspension point (the steps of a check interleave)
SuspendsEverywhere(p) == TRUE

\* The places where a handler gives the event loop back: it is waiting for its
\* request, at `await call_next(request)`, at `await file.read()`, or it returned.
Suspends(p) == p \in {"idle", "call_next", "read_file"}

\* Handler h goes on at statement p; it keeps the event loop unless p suspends.
Goto(h, p) ==
    /\ pc' = [pc EXCEPT ![h] = p]
    /\ running' = IF Suspends(p) THEN NoHandler ELSE h

CanRun(h) == running \in {NoHandler, h}

\* The history of the admissions of one identity within the last period.
Window(seq, time) == SelectSeq(seq, LAMBDA ts : time - ts < Period)

Init ==
    /\ now = 0
    /\ mw_clients = [c \in Identities |-> <<>>]
    /\ up_clients = [c \in Identities |-> <<>>]
    /\ pc = [h \in Handlers |-> "idle"]
    /\ req = [h \in Handlers |-> NoRequest]
    /\ t = [h \in Handlers |-> 0]
    /\ kept = [h \in Handlers |-> <<>>]
    /\ before = [h \in Handlers |-> <<>>]
    /\ resp = NoResp
    /\ passed = [h \in Handlers |-> {}]
    /\ running = NoHandler
    /\ mw_recent = [c \in Identities |-> <<>>]
    /\ up_recent = [c \in Identities |-> <<>>]
    /\ call = [fn |-> "none"]
    /\ out = 0
    /\ ocr_reader = "None"
    /\ users = <<>>
    /\ job = [h \in Handlers |-> [request |-> [endpoint |-> ""]]]
    /\ disk = {}
    /\ reports = {}
    /\ next_id = 1
    /\ readers_built = 0

\* The clock advances between two runs of the event loop.
Tick ==
    /\ running = NoHandler
    /\ now < MaxTime
    /\ now' = now + 1
    /\ mw_recent' = [c \in Identities |-> Window(mw_recent[c], now')]
    /\ up_recent' = [c \in Identities |-> Window(up_recent[c], now')]
    /\ UNCHANGED <<mw_clients, up_clients, pc, req, t, kept, before, resp, passed,
                   running>>
    /\ UNCHANGED <<anaVars, appVars>>

\* The handler leaves with response r.
Respond(h, r) ==
    /\ resp' = r
    /\ req' = [req EXCEPT ![h] = NoRequest]
    /\ passed' = [passed EXCEPT ![h] = {}]
    /\ t' = [t EXCEPT ![h] = 0]
    /\ kept' = [kept EXCEPT ![h] = <<>>]
    /\ before' = [before EXCEPT ![h] = <<>>]
    /\ Goto(h, "idle")

\* A request r reaches the application: RateLimitMiddleware.dispatch up to the
\* purge comprehension (its right-hand side)
Dispatch(h, r) ==
    /\ running = NoHandler
    /\ pc[h] = "idle"
    /\ \A j \in Handlers : j < h => pc[j] # "idle"
    /\ req' = [req EXCEPT ![h] = r]
    /\ IF is_testclient(r)
       THEN /\ Goto(h, "call_next")
            /\ UNCHANGED <<t, kept, before>>
       ELSE /\ t' = [t EXCEPT ![h] = now]
            /\ kept' = [kept EXCEPT ![h] =
                           purge(mw_clients[get_client_ip(r)], now, mw_limit.period)]
            /\ before' = [before EXCEPT ![h] = mw_clients[get_client_ip(r)]]
            /\ Goto(h, "mw_write")
    /\ UNCHANGED <<now, mw_clients, up_clients, resp, passed, mw_recent, up_recent>>
    /\ UNCHANGED <<anaVars, appVars>>

\* self.clients[client_ip] = [...]
MwWrite(h) ==
    /\ CanRun(h)
    /\ pc[h] = "mw_write"
    /\ mw_clients' = [mw_clients EXCEPT ![get_client_ip(req[h])] = kept[h]]
    /\ Goto(h, "mw_count")
    /\ UNCHANGED <<now, up_clients, req, t, kept, before, resp, passed, mw_recent,
                   up_recent>>
    /\ UNCHANGED <<anaVars, appVars>>

\* if len(self.clients[client_ip]) >= self.calls: raise HTTPException(429, ...)
MwCount(h) ==
    /\ CanRun(h)
    /\ pc[h] = "mw_count"
    /\ IF exceeded(mw_clients[get_client_ip(req[h])], mw_limit)
       THEN Respond(h, rate_limit_error(mw_limit))
       ELSE Goto(h, "mw_append") /\ UNCHANGED <<req, resp, passed, t, kept, before>>
    /\ UNCHANGED <<now, mw_clients, up_clients, mw_recent, up_recent>>
    /\ UNCHANGED <<anaVars, appVars>>

\* self.clients[client_ip].append(now); response = await call_next(request)
MwAppend(h) ==
    /\ CanRun(h)
    /\ pc[h] = "mw_append"
    /\ LET c == get_client_ip(req[h]) IN
        /\ mw_clients' = [mw_clients EXCEPT ![c] = Append(@, t[h])]
        /\ mw_recent' = [mw_recent EXCEPT ![c] = Window(Append(@, t[h]), now)]
    /\ passed' = [passed EXCEPT ![h] = @ \cup {"general"}]
    /\ t' = [t EXCEPT ![h] = 0]
    /\ kept' = [kept EXCEPT ![h] = <<>>]
    /\ before' = [before EXCEPT ![h] = <<>>]
    /\ Goto(h, "call_next")
    /\ UNCHANGED <<now, up_clients, req, resp, up_recent>>
    /\ UNCHANGED <<anaVars, appVars>>

\* call_next(request): the route runs.  "/" answers at once; an ingestion
\* endpoint starts with upload_rate_limit.check_rate_limit(request), whose
\* first statement is the purge comprehension.
CallNext(h, path) ==
    /\ CanRun(h)
    /\ pc[h] = "call_next"
    /\ IF path \in Ingestion
       THEN /\ req' = [req EXCEPT ![h].path = path]
            /\ t' = [t EXCEPT ![h] = now]
            /\ kept' = [kept EXCEPT ![h] =
                           purge(up_clients[get_client_ip(req[h])], now,
                                 upload_rate_limit.period)]
            /\ before' = [before EXCEPT ![h] = up_clients[get_client_ip(req[h])]]
            /\ Goto(h, "up_write")
            /\ UNCHANGED <<resp, passed>>
       ELSE Respond(h, Ok)
    /\ UNCHANGED <<now, mw_clients, up_clients, mw_recent, up_recent>>
    /\ UNCHANGED <<anaVars, appVars>>

\* self.clients[client_ip] = [...]
UpWrite(h) ==
    /\ CanRun(h)
    /\ pc[h] = "up_write"
    /\ up_clients' = [up_clients EXCEPT ![get_client_ip(req[h])] = kept[h]]
    /\ Goto(h, "up_count")
    /\ UNCHANGED <<now, mw_clients, req, t, kept, before, resp, passed, mw_recent,
                   up_recent>>
    /\ UNCHANGED <<anaVars, appVars>>

\* if len(self.clients[client_ip]) >= self.calls: raise HTTPException(429, ...)
UpCount(h) ==
    /\ CanRun(h)
    /\ pc[h] = "up_count"
    /\ IF exceeded(up_clients[get_client_ip(req[h])], upload_rate_limit)
       THEN Respond(h, rate_limit_error(upload_rate_limit))
       ELSE Goto(h, "up_append") /\ UNCHANGED <<req, resp, passed, t, kept, before>>
    /\ UNCHANGED <<now, mw_clients, up_clients, mw_recent, up_recent>>
    /\ UNCHANGED <<anaVars, appVars>>

\* self.clients[client_ip].append(now)
UpAppend(h) ==
    /\ CanRun(h)
    /\ pc[h] = "up_append"
    /\ LET c == get_client_ip(req[h]) IN
        /\ up_clients' = [up_clients EXCEPT ![c] = Append(@, t[h])]
        /\ up_recent' = [up_recent EXCEPT ![c] = Window(Append(@, t[h]), now)]
    /\ passed' = [passed EXCEPT ![h] = @ \cup {"upload"}]
    /\ t' = [t EXCEPT ![h] = 0]
    /\ kept' = [kept EXCEPT ![h] = <<>>]
    /\ before' = [before EXCEPT ![h] = <<>>]
    /\ Goto(h, "validate")
    /\ UNCHANGED <<now, mw_clients, req, resp, mw_recent>>
    /\ UNCHANGED <<anaVars, appVars>>

\* validate_uploaded_file(file), for every file of a batch; then
\* `content = await file.read()`
Validate(h, valid) ==
    /\ CanRun(h)
    /\ pc[h] = "validate"
    /\ IF valid
       THEN Goto(h, "read_file") /\ UNCHANGED <<req, resp, passed, t, kept, before>>
       ELSE Respond(h, invalid_file_error)
    /\ UNCHANGED <<now, mw_clients, up_clients, mw_recent, up_recent>>
    /\ UNCHANGED <<anaVars, appVars>>

\* The image is saved, analysed and its report stored (db.add, db.commit).
Process(h) ==
    /\ CanRun(h)
    /\ pc[h] = "read_file"
    /\ Respond(h, Ok)
    /\ UNCHANGED <<now, mw_clients, up_clients, mw_recent, up_recent>>
    /\ UNCHANGED <<anaVars, appVars>>

(***************************************************************************)
(* The analysis functions.  A call draws its arguments from the grids      *)
(* below; `call` holds the arguments and `out` the value returned.         *)
(***************************************************************************)
MinYear == 1950
MaxYear == 2024
MaxCapacity == 5000
CapacityStep == 250
GridStep == 1000
MaxThresholdSteps == 8

MaxYearsAhead == 2

Voltages == {66, 110, 220, 400}
Capacities == {c \in 0..MaxCapacity : c % CapacityStep = 0}
Years == MinYear..MaxYear
\* the years in which the service may run
ReferenceYears == MaxYear..(MaxYear + MaxYearsAhead)
Priorities == {"CRITICAL", "HIGH", "MEDIUM"}
Thresholds == {k * GridStep : k \in 0..MaxThresholdSteps}
Deltas == {k * GridStep : k \in -(2 * MaxThresholdSteps + 1)..(2 * MaxThresholdSteps + 1)}

Min(a, b) == IF a <= b THEN a ELSE b
Max(a, b) == IF a >= b THEN a ELSE b

\* faulty variant: a CRITICAL priority is looked at before the threshold
classify_priority_first(delta_t, threshold, priority) ==
    IF priority = "CRITICAL" /\ delta_t > 0 THEN "CRITICAL"
    ELSE IF delta_t <= threshold THEN "NORMAL"
    ELSE IF delta_t > threshold * 2 THEN "CRITICAL"
    ELSE "WARNING"

\* faulty variant: twice the threshold already counts as CRITICAL
classify_double_inclusive(delta_t, threshold, priority) ==
    IF delta_t <= threshold THEN "NORMAL"
    ELSE IF priority = "CRITICAL" \/ delta_t >= threshold * 2 THEN "CRITICAL"
    ELSE "WARNING"

\* classify_fault_level(delta_t, threshold, priority)
classify_fault_level(delta_t, threshold, priority) ==
    IF delta_t <= threshold THEN "NORMAL"
    ELSE IF priority = "CRITICAL" \/ delta_t > threshold * 2 THEN "CRITICAL"
    ELSE "WARNING"

\* faulty variant: the floor of 2.0 is not applied
get_dynamic_threshold_no_floor(metadata) ==
    LET base_threshold == IF metadata.voltage_kv >= 220 THEN 8000 ELSE 5000
        age_adjustment == Min((2024 - metadata.commissioning_year) * 100, 2000)
    IN  base_threshold - age_adjustment - metadata.capacity_amps

\* get_dynamic_threshold, from the metadata on: 8.0 / 5.0 base, 0.1 per year of
\* age up to 2.0, 1.0 per 1000 A, floor 2.0 (in thousandths of a degree)
get_dynamic_threshold(metadata) ==
    LET base_threshold == IF metadata.voltage_kv >= 220 THEN 8000 ELSE 5000
        age == 2024 - metadata.commissioning_year
        age_adjustment == Min(age * 100, 2000)
        capacity_adjustment == metadata.capacity_amps
        final_threshold == base_threshold - age_adjustment - capacity_adjustment
    IN  Max(final_threshold, 2000)

(***************************************************************************)
(* Text.  A Python str is the sequence of its characters.                  *)
(***************************************************************************)
\* str.lower(), on the capital letters that occur in the names below
lower_char(c) ==
    CASE c = "B" -> "b" [] c = "K" -> "k" [] c = "L" -> "l" [] c = "M" -> "m"
      [] c = "P" -> "p" [] c = "S" -> "s" [] c = "T" -> "t" [] c = "U" -> "u"
      [] c = "C" -> "c" [] c = "F" -> "f" [] c = "A" -> "a" [] c = "X" -> "x"
      [] OTHER -> c
lower(s) == [i \in DOMAIN s |-> lower_char(s[i])]

\* needle in text
is_in(needle, text) ==
    \E i \in 0..(Len(text) - Len(needle)) :
        \A j \in 1..Len(needle) : text[i + j] = needle[j]

\* text.replace(old, '') for a non-empty old
RECURSIVE replace_by_nothing(_, _)
replace_by_nothing(text, old) ==
    IF Len(text) < Len(old) THEN text
    ELSE IF SubSeq(text, 1, Len(old)) = old
         THEN replace_by_nothing(SubSeq(text, Len(old) + 1, Len(text)), old)
         ELSE <<Head(text)>> \o replace_by_nothing(Tail(text), old)

\* text.strip()
RECURSIVE strip(_)
strip(text) ==
    IF text = <<>> THEN text
    ELSE IF Head(text) = " " THEN strip(Tail(text))
    ELSE IF text[Len(text)] = " " THEN strip(SubSeq(text, 1, Len(text) - 1))
    ELSE text

\* the index of the first TRUE of a sequence of test results, 0 when there is none
FirstIndex(hits) ==
    IF \E i \in DOMAIN hits : hits[i]
    THEN CHOOSE i \in DOMAIN hits : hits[i] /\ \A j \in 1..(i - 1) : ~hits[j]
    ELSE 0

(***************************************************************************)
(* ExcelDataIntegrator: the line metadata (a dict, in insertion order, as  *)
(* the sequence of its items), get_tower_metadata and _calculate_priority. *)
(***************************************************************************)
UnknownCamp == <<"U", "n", "k", "n", "o", "w", "n", " ", "C", "a", "m", "p">>

\* camp_mappings, in the order of the dict literal
camp_mappings ==
    << [pattern |-> <<"k", "k", "s">>,
        keywords |-> <<<<"k", "a", "l", "w", "a">>, <<"k", "a", "l", "y", "a", "n">>, <<"s", "a", "l", "s", "e", "t", "t", "e">>>>],
       [pattern |-> <<"b", "o", "r", "i", "v", "a", "l", "i">>,
        keywords |-> <<<<"b", "o", "r", "i", "v", "l", "i">>, <<"b", "o", "r", "i", "v", "a", "l", "i">>>>],
       [pattern |-> <<"t", "r", "o", "m", "b", "a", "y">>, keywords |-> <<<<"t", "r", "o", "m", "b", "a", "y">>>>],
       [pattern |-> <<"s", "a", "l", "s", "e", "t", "t", "e">>, keywords |-> <<<<"s", "a", "l", "s", "e", "t", "t", "e">>>>],
       [pattern |-> <<"k", "a", "l", "y", "a", "n">>, keywords |-> <<<<"k", "a", "l", "y", "a", "n">>>>],
       [pattern |-> <<"p", "a", "n", "v", "e", "l">>, keywords |-> <<<<"p", "a", "n", "v", "e", "l">>>>],
       [pattern |-> <<"k", "h", "o", "p", "o", "l", "i">>,
        keywords |-> <<<<"k", "h", "o", "p", "o", "l", "i">>, <<"b", "h", "i", "r", "a">>>>] >>

\* The loaded line metadata the calls are made with.
LineTrombay == [line_name |-> <<"T", "r", "o", "m", "b", "a", "y">>,
                metadata |-> [voltage_kv |-> 220, capacity_amps |-> 1250,
                              commissioning_year |-> 2000]]
LineKalwa == [line_name |-> <<"K", "a", "l", "w", "a", " ", "8", "5">>,
              metadata |-> [voltage_kv |-> 110, capacity_amps |-> 1000,
                            commissioning_year |-> 2015]]
LineBhira == [line_name |-> <<"B", "h", "i", "r", "a">>,
              metadata |-> [voltage_kv |-> 66, capacity_amps |-> 1250,
                            commissioning_year |-> 1990]]
TowerMetadatas == { <<>>, <<LineTrombay, LineKalwa, LineBhira>>,
                    <<LineBhira, LineKalwa>> }
\* "" stands for a camp or tower name that is missing (None or empty)
CampNames == { <<>>, <<"K", "K", "S">>, <<"T", "r", "o", "m", "b", "a", "y">>, <<"P", "a", "n", "v", "e", "l">>,
               <<"K", "h", "o", "p", "o", "l", "i">>,
               <<"K", "K", "S", " ", "K", "h", "o", "p", "o", "l", "i">> }
TowerNames == { <<>>, <<"L", "o", "c", ".", " ", "8", "5">>, <<"L", "o", "c", ".", " ", "7">> }

\* faulty variant: a capacity of exactly 1000 A already counts as HIGH
calculate_priority_inclusive(voltage_kv, capacity_amps) ==
    IF voltage_kv >= 220 THEN "CRITICAL"
    ELSE IF capacity_amps >= 1000 THEN "HIGH"
    ELSE "MEDIUM"

\* _calculate_priority(voltage_kv, capacity_amps)
calculate_priority(voltage_kv, capacity_amps) ==
    IF voltage_kv >= 220 THEN "CRITICAL"
    ELSE IF capacity_amps > 1000 THEN "HIGH"
    ELSE "MEDIUM"

\* the `default` dict of get_tower_metadata
default_metadata(camp_name) ==
    [voltage_kv |-> 110, capacity_amps |-> 1000, commissioning_year |-> 2000,
     priority |-> "MEDIUM",
     camp_name |-> IF camp_name # <<>> THEN camp_name ELSE UnknownCamp]

\* {**default, **metadata, 'priority': ..., 'camp_name': ...}
matched_metadata(metadata, camp_name) ==
    [voltage_kv |-> metadata.voltage_kv, capacity_amps |-> metadata.capacity_amps,
     commissioning_year |-> metadata.commissioning_year,
     priority |-> calculate_priority(metadata.voltage_kv, metadata.capacity_amps),
     camp_name |-> IF camp_name # <<>> THEN camp_name ELSE UnknownCamp]

\* 1) first key that contains the camp name
direct_match(tower_metadata, camp_name) ==
    IF camp_name = <<>> THEN 0
    ELSE FirstIndex([i \in DOMAIN tower_metadata |->
                        is_in(lower(camp_name), lower(tower_metadata[i].line_name))])

\* 1b) first pattern contained in the camp name that has a key containing one
\* of its keywords: the index of that key
pattern_match(tower_metadata, camp_name) ==
    LET KeyOf(mapping) ==
            FirstIndex([i \in DOMAIN tower_metadata |->
                           \E k \in DOMAIN mapping.keywords :
                              is_in(mapping.keywords[k], lower(tower_metadata[i].line_name))])
        Hit(mapping) == is_in(mapping.pattern, lower(camp_name)) /\ KeyOf(mapping) # 0
        m == FirstIndex([i \in DOMAIN camp_mappings |-> Hit(camp_mappings[i])])
    IN  IF camp_name = <<>> \/ m = 0 THEN 0 ELSE KeyOf(camp_mappings[m])

\* 2) first key that contains the tower name without 'loc.'
name_match(tower_metadata, tower_name) ==
    LET base == strip(replace_by_nothing(lower(tower_name), <<"l", "o", "c", ".">>))
    IN  IF tower_name = <<>> \/ base = <<>> THEN 0
        ELSE FirstIndex([i \in DOMAIN tower_metadata |->
                            is_in(base, lower(tower_metadata[i].line_name))])

\* faulty variant: the tower name is tried before the alias table
get_tower_metadata_name_first(tower_metadata, tower_name, camp_name) ==
    LET d == direct_match(tower_metadata, camp_name)
        p == pattern_match(tower_metadata, camp_name)
        n == name_match(tower_metadata, tower_name)
    IN  IF d # 0 THEN matched_metadata(tower_metadata[d].metadata, camp_name)
        ELSE IF n # 0 THEN matched_metadata(tower_metadata[n].metadata, camp_name)
        ELSE IF p # 0 THEN matched_metadata(tower_metadata[p].metadata, camp_name)
        ELSE default_metadata(camp_name)

\* get_tower_metadata(tower_name, camp_name)
get_tower_metadata(tower_metadata, tower_name, camp_name) ==
    LET d == direct_match(tower_metadata, camp_name)
        p == pattern_match(tower_metadata, camp_name)
        n == name_match(tower_metadata, tower_name)
    IN  IF d # 0 THEN matched_metadata(tower_metadata[d].metadata, camp_name)
        ELSE IF p # 0 THEN matched_metadata(tower_metadata[p].metadata, camp_name)
        ELSE IF n # 0 THEN matched_metadata(tower_metadata[n].metadata, camp_name)
        ELSE default_metadata(camp_name)

(***************************************************************************)
(* The tower registry (towers_df) and find_nearest_tower.  Coordinates are *)
(* whole degrees; distances are counted in tenths of a metre.              *)
(***************************************************************************)
\* None, and a value that is present
None == <<>>
Some(v) == <<v>>

Latitudes == {-1, 0, 1, 2}
Longitudes == {0, 1}

\* haversine_distance on the coordinates above: the values of the formula
\* 2 * asin(sqrt(a)) * 6371, in tenths of a metre
HaversineTable ==
    <<-1, 0, -1, 0>> :> 0 @@ <<-1, 0, -1, 1>> :> 1111780 @@ <<-1, 0, 0, 0>> :> 1111949 @@
    <<-1, 0, 0, 1>> :> 1572494 @@ <<-1, 0, 1, 0>> :> 2223899 @@ <<-1, 0, 1, 1>> :> 2486369 @@
    <<-1, 0, 2, 0>> :> 3335848 @@ <<-1, 0, 2, 1>> :> 3516239 @@ <<-1, 1, -1, 0>> :> 1111780 @@
    <<-1, 1, -1, 1>> :> 0 @@ <<-1, 1, 0, 0>> :> 1572494 @@ <<-1, 1, 0, 1>> :> 1111949 @@
    <<-1, 1, 1, 0>> :> 2486369 @@ <<-1, 1, 1, 1>> :> 2223899 @@ <<-1, 1, 2, 0>> :> 3516239 @@
    <<-1, 1, 2, 1>> :> 3335848 @@ <<0, 0, -1, 0>> :> 1111949 @@ <<0, 0, -1, 1>> :> 1572494 @@
    <<0, 0, 0, 0>> :> 0 @@ <<0, 0, 0, 1>> :> 1111949 @@ <<0, 0, 1, 0>> :> 1111949 @@
    <<0, 0, 1, 1>> :> 1572494 @@ <<0, 0, 2, 0>> :> 2223899 @@ <<0, 0, 2, 1>> :> 2486293 @@
    <<0, 1, -1, 0>> :> 1572494 @@ <<0, 1, -1, 1>> :> 1111949 @@ <<0, 1, 0, 0>> :> 1111949 @@
    <<0, 1, 0, 1>> :> 0 @@ <<0, 1, 1, 0>> :> 1572494 @@ <<0, 1, 1, 1>> :> 1111949 @@
    <<0, 1, 2, 0>> :> 2486293 @@ <<0, 1, 2, 1>> :> 2223899 @@ <<1, 0, -1, 0>> :> 2223899 @@
    <<1, 0, -1, 1>> :> 2486369 @@ <<1, 0, 0, 0>> :> 1111949 @@ <<1, 0, 0, 1>> :> 1572494 @@
    <<1, 0, 1, 0>> :> 0 @@ <<1, 0, 1, 1>> :> 1111780 @@ <<1, 0, 2, 0>> :> 1111949 @@
    <<1, 0, 2, 1>> :> 1572254 @@ <<1, 1, -1, 0>> :> 2486369 @@ <<1, 1, -1, 1>> :> 2223899 @@
    <<1, 1, 0, 0>> :> 1572494 @@ <<1, 1, 0, 1>> :> 1111949 @@ <<1, 1, 1, 0>> :> 1111780 @@
    <<1, 1, 1, 1>> :> 0 @@ <<1, 1, 2, 0>> :> 1572254 @@ <<1, 1, 2, 1>> :> 1111949 @@
    <<2, 0, -1, 0>> :> 3335848 @@ <<2, 0, -1, 1>> :> 3516239 @@ <<2, 0, 0, 0>> :> 2223899 @@
    <<2, 0, 0, 1>> :> 2486293 @@ <<2, 0, 1, 0>> :> 1111949 @@ <<2, 0, 1, 1>> :> 1572254 @@
    <<2, 0, 2, 0>> :> 0 @@ <<2, 0, 2, 1>> :> 1111272 @@ <<2, 1, -1, 0>> :> 3516239 @@
    <<2, 1, -1, 1>> :> 3335848 @@ <<2, 1, 0, 0>> :> 2486293 @@ <<2, 1, 0, 1>> :> 2223899 @@
    <<2, 1, 1, 0>> :> 1572254 @@ <<2, 1, 1, 1>> :> 1111949 @@ <<2, 1, 2, 0>> :> 1111272 @@
    <<2, 1, 2, 1>> :> 0

haversine_distance(lat1, lon1, lat2, lon2) == HaversineTable[<<lat1, lon1, lat2, lon2>>]

\* round(distance, 3): kilometres to the nearest metre
round3(distance) == ((distance + 5) \div 10) * 10

\* The rows of towers.csv.  position_parses is FALSE when float() of the
\* latitude or longitude raises ValueError, id_parses is FALSE when int() of the
\* tower_id does (an empty cell).
TowerNorth == [tower_id |-> 1, id_parses |-> TRUE, tower_name |-> <<"L", "o", "c", ".", " ", "8", "5">>,
               camp_name |-> <<"K", "K", "S">>, latitude |-> 1, longitude |-> 0,
               position_parses |-> TRUE]
TowerSouth == [tower_id |-> 2, id_parses |-> TRUE, tower_name |-> <<"L", "o", "c", ".", " ", "7">>,
               camp_name |-> <<"T", "r", "o", "m", "b", "a", "y">>, latitude |-> -1, longitude |-> 0,
               position_parses |-> TRUE]
TowerEast == [tower_id |-> 3, id_parses |-> TRUE, tower_name |-> <<"L", "o", "c", ".", " ", "7">>,
              camp_name |-> <<"P", "a", "n", "v", "e", "l">>, latitude |-> 0, longitude |-> 1,
              position_parses |-> TRUE]
TowerNoId == [tower_id |-> 0, id_parses |-> FALSE, tower_name |-> <<"L", "o", "c", ".", " ", "7">>,
              camp_name |-> <<"K", "h", "o", "p", "o", "l", "i">>, latitude |-> 0, longitude |-> 0,
              position_parses |-> TRUE]
TowerNoPosition == [tower_id |-> 5, id_parses |-> TRUE, tower_name |-> <<"L", "o", "c", ".", " ", "8", "5">>,
                    camp_name |-> <<"K", "K", "S">>, latitude |-> 0, longitude |-> 0,
                    position_parses |-> FALSE]
TowerRows == {TowerNorth, TowerSouth, TowerEast, TowerNoId, TowerNoPosition}
MaxTowers == 3
\* the registries: up to MaxTowers different rows, in any order
TowerRegistries ==
    UNION { { reg \in [1..n -> TowerRows] : \A i, j \in 1..n : i # j => reg[i] # reg[j] } :
            n \in 0..MaxTowers }

\* One turn of the loop of find_nearest_tower: acc holds min_distance (with
\* is_inf for float('inf')) and nearest_tower.
nearest_step(acc, tower, tower_metadata, lat, lon) ==
    IF ~tower.position_parses THEN acc
    ELSE LET distance == haversine_distance(lat, lon, tower.latitude, tower.longitude)
             metadata == get_tower_metadata(tower_metadata, tower.tower_name,
                                            tower.camp_name)
         IN  IF ~(acc.is_inf \/ distance < acc.min_distance) THEN acc
             ELSE IF ~tower.id_parses
                  THEN [acc EXCEPT !.is_inf = FALSE, !.min_distance = distance]
                  ELSE [is_inf |-> FALSE, min_distance |-> distance,
                        nearest_tower |->
                            Some([tower_id |-> tower.tower_id,
                                  tower_name |-> tower.tower_name,
                                  latitude |-> tower.latitude,
                                  longitude |-> tower.longitude,
                                  distance_km |-> round3(distance),
                                  voltage_kv |-> metadata.voltage_kv,
                                  capacity_amps |-> metadata.capacity_amps,
                                  commissioning_year |-> metadata.commissioning_year,
                                  priority |-> metadata.priority,
                                  camp_name |-> metadata.camp_name])]

RECURSIVE nearest_scan(_, _, _, _, _)
nearest_scan(acc, rows, tower_metadata, lat, lon) ==
    IF rows = <<>> THEN acc
    ELSE nearest_scan(nearest_step(acc, Head(rows), tower_metadata, lat, lon),
                      Tail(rows), tower_metadata, lat, lon)

\* find_nearest_tower(lat, lon): None, or Some(the nearest_tower dict)
find_nearest_tower(towers_df, tower_metadata, lat, lon) ==
    IF towers_df = <<>> THEN None
    ELSE nearest_scan([is_inf |-> TRUE, min_distance |-> 0, nearest_tower |-> None],
                      towers_df, tower_metadata, lat, lon).nearest_tower

(***************************************************************************)
(* extract_temperature_from_image.  A detection is (bbox, text, conf); the *)
(* text is a sequence of characters in which "deg" is the degree sign, the *)
(* confidence is counted in hundredths, a bbox is the rectangle            *)
(* [[x0,y0],[x1,y0],[x1,y1],[x0,y1]], temperatures are thousandths.        *)
(***************************************************************************)
OCR_CONFIDENCE_THRESHOLD == 40
OCR_TEMPERATURE_RANGE == <<20000, 80000>>
OCR_REGIONS == {"top_left", "top_right", "full"}

Digit == {"0", "1", "2", "3", "4", "5", "6", "7", "8", "9"}
digit_value(c) ==
    CASE c = "0" -> 0 [] c = "1" -> 1 [] c = "2" -> 2 [] c = "3" -> 3 [] c = "4" -> 4
      [] c = "5" -> 5 [] c = "6" -> 6 [] c = "7" -> 7 [] c = "8" -> 8 [] c = "9" -> 9

IsDigitAt(text, i) == i \in DOMAIN text /\ text[i] \in Digit

\* \d{1,3}(?:\.\d{1,2})? matched at the digit text[i]: the index of its last
\* character (the quantifiers are greedy and never have to give back)
number_end(text, i) ==
    LET int_end == IF IsDigitAt(text, i + 1)
                   THEN (IF IsDigitAt(text, i + 2) THEN i + 2 ELSE i + 1)
                   ELSE i
        has_fraction == /\ int_end + 1 \in DOMAIN text
                        /\ text[int_end + 1] = "."
                        /\ IsDigitAt(text, int_end + 2)
    IN  IF has_fraction
        THEN (IF IsDigitAt(text, int_end + 3) THEN int_end + 3 ELSE int_end + 2)
        ELSE int_end

\* \s* from position i on: the first position that holds no white space
RECURSIVE skip_spaces(_, _)
skip_spaces(text, i) ==
    IF i \in DOMAIN text /\ text[i] = " " THEN skip_spaces(text, i + 1) ELSE i

\* \s*[deg]?\s*[CcFf]? from position i on: the first position not consumed
unit_end(text, i) ==
    LET a == skip_spaces(text, i)
        b == IF a \in DOMAIN text /\ text[a] = "deg" THEN a + 1 ELSE a
        c == skip_spaces(text, b)
    IN  IF c \in DOMAIN text /\ text[c] \in {"C", "c", "F", "f"} THEN c + 1 ELSE c

\* temp_num.findall(text), scanning from position i
RECURSIVE temp_num_findall(_, _)
temp_num_findall(text, i) ==
    IF i > Len(text) THEN <<>>
    ELSE IF text[i] \in Digit
         THEN <<SubSeq(text, i, number_end(text, i))>>
              \o temp_num_findall(text, number_end(text, i) + 1)
         ELSE temp_num_findall(text, i + 1)

\* temp_with_unit.findall(text): the numbers (group 1); the scan goes on
\* behind the unit that the match consumed
RECURSIVE temp_with_unit_findall(_, _)
temp_with_unit_findall(text, i) ==
    IF i > Len(text) THEN <<>>
    ELSE IF text[i] \in Digit
         THEN <<SubSeq(text, i, number_end(text, i))>>
              \o temp_with_unit_findall(text, unit_end(text, number_end(text, i) + 1))
         ELSE temp_with_unit_findall(text, i + 1)

\* temp_max_pattern.findall(text): max\s*:?\s*(number), ignoring case
RECURSIVE temp_max_findall(_, _)
temp_max_findall(text, i) ==
    IF i + 2 > Len(text) THEN <<>>
    ELSE LET a == skip_spaces(text, i + 3)
             b == IF a \in DOMAIN text /\ text[a] = ":" THEN a + 1 ELSE a
             c == skip_spaces(text, b)
         IN  IF lower(SubSeq(text, i, i + 2)) = <<"m", "a", "x">> /\ IsDigitAt(text, c)
             THEN <<SubSeq(text, c, number_end(text, c))>>
                  \o temp_max_findall(text, number_end(text, c) + 1)
             ELSE temp_max_findall(text, i + 1)

\* int() of a sequence of digits
RECURSIVE digits_value(_)
digits_value(digits) ==
    IF digits = <<>> THEN 0
    ELSE digits_value(SubSeq(digits, 1, Len(digits) - 1)) * 10
         + digit_value(digits[Len(digits)])

\* faulty variant: every decimal digit string is read as tenths
to_float_tenths(m) ==
    LET dot == FirstIndex([i \in DOMAIN m |-> m[i] = "."])
    IN  IF dot = 0 THEN digits_value(m) * 1000
        ELSE digits_value(SubSeq(m, 1, dot - 1)) * 1000
             + digits_value(SubSeq(m, dot + 1, Len(m))) * 100

\* float(m) of a matched number, in thousandths
to_float(m) ==
    LET dot == FirstIndex([i \in DOMAIN m |-> m[i] = "."])
        fraction == SubSeq(m, dot + 1, Len(m))
    IN  IF dot = 0 THEN digits_value(m) * 1000
        ELSE digits_value(SubSeq(m, 1, dot - 1)) * 1000
             + (IF Len(fraction) = 1 THEN digits_value(fraction) * 100
                ELSE digits_value(fraction) * 10)

\* faulty variant: the upper end of the range is not tested
in_range_no_upper(val) == OCR_TEMPERATURE_RANGE[1] <= val

\* OCR_TEMPERATURE_RANGE[0] <= val <= OCR_TEMPERATURE_RANGE[1]
in_range(val) == OCR_TEMPERATURE_RANGE[1] <= val /\ val <= OCR_TEMPERATURE_RANGE[2]

Abs(a) == IF a < 0 THEN -a ELSE a

\* The first two families: every match in range becomes a candidate with the
\* bonus, in numbers and in degree_candidates.
RECURSIVE add_boosted(_, _, _, _)
add_boosted(acc, matches, det, bonus) ==
    IF matches = <<>> THEN acc
    ELSE LET val == to_float(Head(matches))
             entry == [val |-> val, conf |-> det.conf + bonus, bbox |-> det.bbox,
                       text |-> strip(det.text)]
         IN  add_boosted(IF in_range(val)
                         THEN [acc EXCEPT !.numbers = Append(@, entry),
                                          !.degree_candidates = Append(@, entry)]
                         ELSE acc,
                         Tail(matches), det, bonus)

\* The third family: a match in range that is not within 0.1 of a number
\* already collected.
RECURSIVE add_plain(_, _, _)
add_plain(acc, matches, det) ==
    IF matches = <<>> THEN acc
    ELSE LET val == to_float(Head(matches))
             text_clean == strip(det.text)
             entry == [val |-> val, conf |-> det.conf, bbox |-> det.bbox,
                       text |-> text_clean]
             is_new == ~\E k \in DOMAIN acc.numbers : Abs(acc.numbers[k].val - val) < 100
             marked == \/ is_in(<<"deg">>, text_clean)
                       \/ is_in(<<"c">>, lower(text_clean))
                       \/ is_in(<<"f">>, lower(text_clean))
         IN  add_plain(IF in_range(val) /\ is_new
                       THEN [acc EXCEPT !.numbers = Append(@, entry),
                                        !.degree_candidates =
                                            IF marked THEN Append(@, entry) ELSE @]
                       ELSE acc,
                       Tail(matches), det)

\* One turn of the loop over ocr_results.
collect_step(acc, det) ==
    IF det.conf < OCR_CONFIDENCE_THRESHOLD \/ det.text = <<>> THEN acc
    ELSE LET text_clean == strip(det.text)
             has_max == is_in(<<"m", "a", "x">>, lower(text_clean))
             labelled == IF has_max
                         THEN [acc EXCEPT !.labels_max =
                                   Append(@, [bbox |-> det.bbox, conf |-> det.conf,
                                              text |-> text_clean])]
                         ELSE acc
             with_max == IF has_max
                         THEN add_boosted(labelled, temp_max_findall(text_clean, 1), det, 20)
                         ELSE labelled
             with_unit == add_boosted(with_max, temp_with_unit_findall(text_clean, 1),
                                      det, 10)
         IN  add_plain(with_unit, temp_num_findall(text_clean, 1), det)

RECURSIVE collect(_, _)
collect(acc, ocr_results) ==
    IF ocr_results = <<>> THEN acc
    ELSE collect(collect_step(acc, Head(ocr_results)), Tail(ocr_results))

\* numbers, labels_max and degree_candidates after the loop
candidates(ocr_results) ==
    collect([numbers |-> <<>>, labels_max |-> <<>>, degree_candidates |-> <<>>],
            ocr_results)

\* twice bbox_center(b)
bbox_center2(b) == [x |-> b.x0 + b.x1, y |-> b.y0 + b.y1]

\* the first entry of highest confidence: sorted(..., key=conf, reverse=True)[0]
highest_conf(entries) ==
    CHOOSE i \in DOMAIN entries :
        /\ \A j \in DOMAIN entries : entries[j].conf <= entries[i].conf
        /\ \A j \in 1..(i - 1) : entries[j].conf < entries[i].conf

\* 1) a number on the row of a 'Max' label and to its right, of best score
pick_near_label(c, band_h) ==
    LET near(l, n) ==
            LET lc == bbox_center2(c.labels_max[l].bbox)
                nc == bbox_center2(c.numbers[n].bbox)
            IN  /\ 40 * c.labels_max[l].bbox.y0 - 2 * band_h <= 20 * nc.y
                /\ 20 * nc.y <= 40 * c.labels_max[l].bbox.y1 + 2 * band_h
                /\ nc.x > lc.x
        \* 200 * max(1, band_h) times the score
        score(l, n) ==
            LET lc == bbox_center2(c.labels_max[l].bbox)
                nc == bbox_center2(c.numbers[n].bbox)
            IN  4 * c.numbers[n].conf * Max(1, band_h)
                - 100 * (Abs(nc.y - lc.y) + Max(0, nc.x - lc.x))
        pairs == {pr \in (DOMAIN c.labels_max) \X (DOMAIN c.numbers) : near(pr[1], pr[2])}
        earlier(a, b) == a[1] < b[1] \/ (a[1] = b[1] /\ a[2] < b[2])
        best == CHOOSE a \in pairs :
                    \A b \in pairs :
                        /\ score(b[1], b[2]) <= score(a[1], a[2])
                        /\ earlier(b, a) => score(b[1], b[2]) < score(a[1], a[2])
    IN  IF pairs = {} THEN None ELSE Some(c.numbers[best[2]].val)

\* 2) the number of highest confidence among those with a degree / C mark
pick_degree_mark(c) ==
    IF c.degree_candidates = <<>> THEN None
    ELSE Some(c.degree_candidates[highest_conf(c.degree_candidates)].val)

\* 3) the number of highest (conf, val) right of 0.6 * width
pick_top_right(c, width) ==
    LET right == {n \in DOMAIN c.numbers : 5 * bbox_center2(c.numbers[n].bbox).x >= 6 * width}
        top == CHOOSE a \in right :
                   \A b \in right :
                       \/ c.numbers[b].conf < c.numbers[a].conf
                       \/ /\ c.numbers[b].conf = c.numbers[a].conf
                          /\ c.numbers[b].val <= c.numbers[a].val
    IN  IF right = {} THEN None ELSE Some(c.numbers[top].val)

\* 4) the number of highest confidence
pick_highest_conf(c) ==
    IF c.numbers = <<>> THEN None ELSE Some(c.numbers[highest_conf(c.numbers)].val)

\* the loop over pick_order
pick(c, region, width, band_h) ==
    IF pick_near_label(c, band_h) # None THEN pick_near_label(c, band_h)
    ELSE IF pick_degree_mark(c) # None THEN pick_degree_mark(c)
    ELSE IF region = "top_right" /\ pick_top_right(c, width) # None
         THEN pick_top_right(c, width)
    ELSE pick_highest_conf(c)

\* round(random.uniform(35, 55), 1): the values the model draws
RandomStep == 10000
RandomReadings == {35000 + k * RandomStep : k \in 0..(20000 \div RandomStep)}

\* get_ocr_reader(): the handle after the call; easyocr_ok tells whether
\* `import easyocr` and easyocr.Reader(...) succeed when they are tried
get_ocr_reader(handle, easyocr_ok) ==
    IF handle # "None" THEN handle
    ELSE IF easyocr_ok THEN "Reader" ELSE "None"

\* extract_temperature_from_image: the values it can return, given the handle
\* get_ocr_reader() returned and the result of reader.readtext
extract_temperature_from_image(reader, ocr_results, region, width, band_h) ==
    IF reader = "None" THEN {Some(r) : r \in RandomReadings}
    ELSE {pick(candidates(ocr_results), region, width, band_h)}

(***************************************************************************)
(* The detections the calls are made with.  The confidences are chosen so  *)
(* that two different confidences never meet after the bonuses of 0.1 and  *)
(* 0.2 (such a tie is decided by the rounding of the float sums).          *)
(***************************************************************************)
ImageWidth == 100
BandHeight == 40
BoxLeft == [x0 |-> 0, x1 |-> 20, y0 |-> 0, y1 |-> 10]
BoxRight == [x0 |-> 60, x1 |-> 80, y0 |-> 0, y1 |-> 10]
BoxBelow == [x0 |-> 60, x1 |-> 80, y0 |-> 20, y1 |-> 30]
Boxes == {BoxLeft, BoxRight, BoxBelow}
Confidences == {30, 50, 90}

\* numerals of 1 to 3 integer digits and at most 2 decimals, with their values
Numerals == { [text |-> <<"2", "0">>, value |-> 20000],
              [text |-> <<"3", "9", ".", "2">>, value |-> 39200],
              [text |-> <<"3", "9", ".", "2", "5">>, value |-> 39250],
              [text |-> <<"0", "8", "0">>, value |-> 80000],
              [text |-> <<"4", "0">>, value |-> 40000],
              [text |-> <<"8", "5">>, value |-> 85000],
              [text |-> <<"7", ".", "5">>, value |-> 7500],
              [text |-> <<"1", "2", "0">>, value |-> 120000] }
UnitMarks == { <<"deg", "C">>, <<"C">>, <<" ", "deg", " ", "C">>, <<"F">> }
MarkedTexts == { n.text \o u : n \in Numerals, u \in UnitMarks }
OtherTexts == { <<"M", "a", "x">>, <<"M", "a", "x", ":", " ", "4", "5", ".", "5">>, <<"4", "5", ".", "5">>,
                <<"8", "5">>, <<"M", "a", "x", " ", "1", "2", "0">>, <<"1", "2", "3", "4">>,
                <<"4", "0">> }
Detections == { [text |-> tx, conf |-> cf, bbox |-> bx] :
                  tx \in MarkedTexts \cup OtherTexts, cf \in Confidences, bx \in Boxes }
\* what stands next to a reading: a label or a bare number on the left
Companions == { [text |-> tx, conf |-> cf, bbox |-> BoxLeft] :
                  tx \in OtherTexts, cf \in {30, 50} }
OcrResults == {<<>>} \cup { <<d>> : d \in Detections }
                     \cup { <<e, d>> : e \in Companions, d \in Detections }
                     \cup { <<d, e>> : e \in Companions, d \in Detections }

(***************************************************************************)
(* The analysis of one image: upload_thermal_image (single upload) and     *)
(* _process_and_store_image (batch upload), from the GPS fix, the reading  *)
(* and the ambient temperature to the stored ThermalReport.                *)
(***************************************************************************)
IngestionPaths == {"upload_thermal_image", "_process_and_store_image"}

\* extract_gps_from_image: (None, None), or the decoded (lat, lon)
GpsFixes == {None} \cup { Some([lat |-> lat, lon |-> lon]) : lat \in {0, 1}, lon \in {0, 1} }

\* get_weather_temperature(): 28.5 is the fallback
AmbientTemps == {28000, 28500, 38000}

ProcessOcrResults ==
    { <<>>,
      <<[text |-> <<"4", "0", "deg", "C">>, conf |-> 90, bbox |-> BoxLeft]>>,
      <<[text |-> <<"3", "9", ".", "2", "deg", "C">>, conf |-> 90, bbox |-> BoxLeft]>>,
      <<[text |-> <<"M", "a", "x", ":", " ", "4", "5", ".", "5">>, conf |-> 90, bbox |-> BoxLeft]>> }
ProcessRegistries == { <<>>, <<TowerNorth, TowerSouth, TowerEast>> }
ProcessMetadatas == { <<>>, <<LineTrombay, LineKalwa, LineBhira>> }

\* the truth value Python gives an Optional[float]
truthy(x) == x # None /\ x[1] # 0

\* nearest_tower: `if lat and lon: nearest_tower = find_nearest_tower(lat, lon)`
match_tower(gps, towers_df, tower_metadata) ==
    IF gps # None /\ gps[1].lat # 0 /\ gps[1].lon # 0
    THEN find_nearest_tower(towers_df, tower_metadata, gps[1].lat, gps[1].lon)
    ELSE None

\* faulty variant: a reading without a tower is reported as a success
analysis_status_always_success(image_temp, nearest_tower) ==
    IF truthy(image_temp) THEN "success" ELSE "failed"

\* analysis_status
analysis_status(image_temp, nearest_tower) ==
    IF truthy(image_temp) /\ nearest_tower # None THEN "success"
    ELSE IF truthy(image_temp) THEN "partial"
    ELSE "failed"

\* threshold_used
threshold_used(image_temp, nearest_tower, tower_metadata) ==
    IF truthy(image_temp) /\ nearest_tower # None
    THEN get_dynamic_threshold(get_tower_metadata(tower_metadata,
                                                  nearest_tower[1].tower_name,
                                                  nearest_tower[1].camp_name))
    ELSE 5000

\* fault_level, on each of the two paths
fault_level(path, image_temp, ambient_temp, nearest_tower, tower_metadata) ==
    LET delta_t == image_temp[1] - ambient_temp
        threshold == threshold_used(image_temp, nearest_tower, tower_metadata)
    IN  IF truthy(image_temp) /\ nearest_tower # None
        THEN classify_fault_level(delta_t, threshold, nearest_tower[1].priority)
        ELSE IF truthy(image_temp)
             THEN (IF path = "upload_thermal_image"
                   THEN classify_fault_level(delta_t, threshold, "MEDIUM")
                   ELSE (IF delta_t > threshold THEN "WARNING" ELSE "NORMAL"))
             ELSE "NORMAL"

\* the ThermalReport that is added to the session and committed
thermal_report(path, gps, image_temp, ambient_temp, towers_df, tower_metadata) ==
    LET nearest_tower == match_tower(gps, towers_df, tower_metadata)
    IN  [tower_id |-> IF nearest_tower # None THEN Some(nearest_tower[1].tower_id) ELSE None,
         latitude |-> IF gps # None THEN Some(gps[1].lat) ELSE None,
         longitude |-> IF gps # None THEN Some(gps[1].lon) ELSE None,
         image_temp |-> image_temp,
         ambient_temp |-> ambient_temp,
         delta_t |-> IF truthy(image_temp) THEN Some(image_temp[1] - ambient_temp) ELSE None,
         threshold_used |-> threshold_used(image_temp, nearest_tower, tower_metadata),
         fault_level |-> fault_level(path, image_temp, ambient_temp, nearest_tower,
                                     tower_metadata),
         priority |-> IF nearest_tower # None THEN nearest_tower[1].priority ELSE "MEDIUM",
         analysis_status |-> analysis_status(image_temp, nearest_tower)]

NoCall == [fn |-> "none"]

CallClassify(delta_t, threshold, priority) ==
    /\ call = NoCall
    /\ call' = [fn |-> "classify_fault_level", delta_t |-> delta_t,
                threshold |-> threshold, priority |-> priority]
    /\ out' = classify_fault_level(delta_t, threshold, priority)
    /\ UNCHANGED <<limVars, appVars>>

\* get_dynamic_threshold is called in the year reference_year; the function takes
\* no year from its caller and never reads the clock.
CallThreshold(metadata, reference_year) ==
    /\ call = NoCall
    /\ call' = [fn |-> "get_dynamic_threshold", metadata |-> metadata,
                reference_year |-> reference_year]
    /\ out' = get_dynamic_threshold(metadata)
    /\ UNCHANGED <<limVars, appVars>>

CallPriority(voltage_kv, capacity_amps) ==
    /\ call = NoCall
    /\ call' = [fn |-> "_calculate_priority", voltage_kv |-> voltage_kv,
                capacity_amps |-> capacity_amps]
    /\ out' = calculate_priority(voltage_kv, capacity_amps)
    /\ UNCHANGED <<limVars, appVars>>

CallMetadata(tower_metadata, tower_name, camp_name) ==
    /\ call = NoCall
    /\ call' = [fn |-> "get_tower_metadata", tower_metadata |-> tower_metadata,
                tower_name |-> tower_name, camp_name |-> camp_name]
    /\ out' = get_tower_metadata(tower_metadata, tower_name, camp_name)
    /\ UNCHANGED <<limVars, appVars>>

CallNearest(towers_df, tower_metadata, lat, lon) ==
    /\ call = NoCall
    /\ call' = [fn |-> "find_nearest_tower", towers_df |-> towers_df,
                tower_metadata |-> tower_metadata, lat |-> lat, lon |-> lon]
    /\ out' = find_nearest_tower(towers_df, tower_metadata, lat, lon)
    /\ UNCHANGED <<limVars, appVars>>

\* extract_temperature_from_image(image_path): get_ocr_reader(), then the
\* reading; ocr_results is what reader.readtext returns for the image
CallExtract(easyocr_ok, ocr_results, region) ==
    /\ call = NoCall
    /\ ocr_reader' = get_ocr_reader(ocr_reader, easyocr_ok)
    /\ call' = [fn |-> "extract_temperature_from_image", reader |-> ocr_reader',
                ocr_results |-> ocr_results, region |-> region]
    /\ out' \in extract_temperature_from_image(ocr_reader', ocr_results, region,
                                               ImageWidth, BandHeight)
    /\ readers_built' = IF ocr_reader' # ocr_reader THEN readers_built + 1
                        ELSE readers_built
    /\ UNCHANGED <<limVars, users, uplVars>>

\* One image goes through the analysis of path; out is the stored report.
CallProcess(path, gps, easyocr_ok, ocr_results, ambient_temp, towers_df, tower_metadata) ==
    /\ call = NoCall
    /\ ocr_reader' = get_ocr_reader(ocr_reader, easyocr_ok)
    /\ call' = [fn |-> path, gps |-> gps, reader |-> ocr_reader',
                ocr_results |-> ocr_results, ambient_temp |-> ambient_temp,
                towers_df |-> towers_df, tower_metadata |-> tower_metadata]
    /\ \E image_temp \in extract_temperature_from_image(ocr_reader', ocr_results,
                                                        "top_left", ImageWidth, BandHeight) :
          out' = thermal_report(path, gps, image_temp, ambient_temp, towers_df,
                                tower_metadata)
    /\ readers_built' = IF ocr_reader' # ocr_reader THEN readers_built + 1
                        ELSE readers_built
    /\ UNCHANGED <<limVars, users, uplVars>>

\* The caller takes the value; the next call may start.
Return ==
    /\ call # NoCall
    /\ call' = NoCall
    /\ out' = 0
    /\ UNCHANGED <<limVars, appVars>>

\* A call starts only when none is pending.
NextAnalysis ==
    \/ call = NoCall /\ \E d \in Deltas, th \in Thresholds, p \in Priorities : CallClassify(d, th, p)
    \/ call = NoCall /\ \E v \in Voltages, c \in Capacities, y \in Years, ry \in ReferenceYears :
          CallThreshold([voltage_kv |-> v, capacity_amps |-> c, commissioning_year |-> y],
                        ry)
    \/ call = NoCall /\ \E v \in Voltages, c \in Capacities : CallPriority(v, c)
    \/ call = NoCall /\ \E reg \in TowerMetadatas, tn \in TowerNames, cn \in CampNames :
          CallMetadata(reg, tn, cn)
    \/ call = NoCall /\ \E towers \in TowerRegistries, lat \in Latitudes, lon \in Longitudes :
          CallNearest(towers, <<LineTrombay, LineKalwa, LineBhira>>, lat, lon)
    \/ call = NoCall /\ \E ok \in BOOLEAN, results \in OcrResults, region \in OCR_REGIONS :
          CallExtract(ok, results, region)
    \/ call = NoCall /\ \E path \in IngestionPaths, gps \in GpsFixes, ok \in BOOLEAN,
                            results \in ProcessOcrResults, ambient \in AmbientTemps,
                            towers \in ProcessRegistries, reg \in ProcessMetadatas :
          CallProcess(path, gps, ok, results, ambient, towers, reg)
    \/ Return

SpecAnalysis == Init /\ [][NextAnalysis]_vars

(***************************************************************************)
(* Registration: POST /auth/register over the users table.                 *)
(***************************************************************************)
Emails == {"a@x.org", "b@x.org", "c@x.org", "d@x.org"}
Roles == {"admin", "viewer", "operator"}

\* A password, with the verdict validate_password_strength gives on it.
Passwords ==
    { [text |-> "testpass123", strong |-> TRUE],
      [text |-> "Passw0rdXYZ", strong |-> TRUE],
      [text |-> "short", strong |-> FALSE] }
UserCreates == [email : Emails, password : Passwords, role : Roles]

validate_password_strength(password) == password.strong

\* get_user_by_email(db, email) finds a row
get_user_by_email(db, email) == \E i \in 1..Len(db) : db[i].email = email

\* create_user: the table after the insert
create_user(db, user) == Append(db, [email |-> user.email, role |-> user.role])

\* faulty variant: registration stays open after the first user
register_always_open(db, user_data) ==
    IF ~validate_password_strength(user_data.password)
    THEN [db |-> db, status_code |-> 400, user |-> None]
    ELSE IF get_user_by_email(db, user_data.email)
    THEN [db |-> db, status_code |-> 400, user |-> None]
    ELSE LET admin == [user_data EXCEPT !.role = "admin"]
         IN  [db |-> create_user(db, admin), status_code |-> 200,
              user |-> Some([email |-> admin.email, role |-> admin.role])]

\* register: the table it leaves and the response it gives
register(db, user_data) ==
    IF ~validate_password_strength(user_data.password)
    THEN [db |-> db, status_code |-> 400, user |-> None]
    ELSE IF get_user_by_email(db, user_data.email)
    THEN [db |-> db, status_code |-> 400, user |-> None]
    ELSE IF Len(db) = 0
    THEN LET admin == [user_data EXCEPT !.role = "admin"]
         IN  [db |-> create_user(db, admin), status_code |-> 200,
              user |-> Some([email |-> admin.email, role |-> admin.role])]
    ELSE [db |-> db, status_code |-> 403, user |-> None]

\* One POST /auth/register; the handler has no await, so it runs as one step.
Register(user_data) ==
    /\ call = NoCall
    /\ call' = [fn |-> "register", user_data |-> user_data]
    /\ users' = register(users, user_data).db
    /\ out' = [status_code |-> register(users, user_data).status_code,
               user |-> register(users, user_data).user]
    /\ UNCHANGED <<limVars, ocr_reader, readers_built, uplVars>>

NextAuth ==
    \/ \E user_data \in UserCreates : Register(user_data)
    \/ Return

SpecAuth == Init /\ [][NextAuth]_vars

(***************************************************************************)
(* The protected endpoints: /upload (upload_thermal_image), /upload_batch  *)
(* (upload_batch), /reports and /generate_report, served by handlers that  *)
(* interleave at their awaits.  A file is saved under the next number,     *)
(* which stands for its uuid4 name; a report is known by its image_path.   *)
(***************************************************************************)
MaxFiles == 2
MaxImages == 2

Protected == Ingestion \cup {"/reports", "/generate_report"}
\* "valid": a bearer token of a known user; "none": no or no valid token
Credentials == {"none", "valid"}
UploadFiles ==
    { [filename |-> "valid.jpg", ext |-> "jpg", size_ok |-> TRUE, is_image |-> TRUE],
      [filename |-> "invalid.txt", ext |-> "txt", size_ok |-> TRUE, is_image |-> FALSE],
      [filename |-> "corrupted.jpg", ext |-> "jpg", size_ok |-> TRUE, is_image |-> FALSE],
      [filename |-> "big.jpg", ext |-> "jpg", size_ok |-> FALSE, is_image |-> TRUE] }
\* One file for /upload; for /upload_batch no file, or MaxFiles files of which
\* one at least is the valid image; no file for the two read endpoints.
ProtectedRequests ==
    LET valid == CHOOSE f \in UploadFiles : f.filename = "valid.jpg"
        batches == { fs \in [1..MaxFiles -> UploadFiles] : \E i \in 1..MaxFiles : fs[i] = valid }
        SentTo(endpoint, lists) ==
            { [xff |-> <<>>, host |-> "10.0.0.1", ua |-> "Mozilla/5.0", endpoint |-> endpoint,
               credentials |-> c, files |-> fs] : c \in Credentials, fs \in lists }
    IN  SentTo("/upload", [1..1 -> UploadFiles])
            \cup SentTo("/upload_batch", {<<>>} \cup batches)
            \cup SentTo("/reports", {<<>>})
            \cup SentTo("/generate_report", {<<>>})

NewJob(r) == [request |-> r, index |-> 0, image_path |-> 0, reader |-> "unset"]

unauthorized == [status_code |-> 401]
\* HTTPException(status_code=400, detail="No files uploaded")
no_files_error == [status_code |-> 400, detail |-> <<"No", "files", "uploaded">>]
\* HTTPException(status_code=400, detail="No valid images processed")
no_images_error == [status_code |-> 400, detail |-> <<"No", "valid", "images", "processed">>]
\* HTTPException(500, "Analysis failed: ...") and the global exception handler
server_error == [status_code |-> 500]

\* faulty variant: every request counts as authenticated
get_current_user_anyone(request) == TRUE

\* Depends(get_current_user) yields a user
get_current_user(request) == request.credentials = "valid"

\* validate_uploaded_file(file) returns without raising
validate_uploaded_file(file) ==
    /\ file.ext \in {"jpg", "jpeg", "png"}
    /\ file.size_ok
    /\ file.is_image

\* faulty variant: only the first file of the batch is validated
validate_first_file(files) == files = <<>> \/ validate_uploaded_file(files[1])

\* for file in files: validate_uploaded_file(file)
validate_all_files(files) == \A i \in DOMAIN files : validate_uploaded_file(files[i])

\* The index of the next file, from the i-th on, that the loop of upload_batch
\* reads: it passes over a name without an image extension (/upload has one file)
next_image(request, i) ==
    LET reads == { k \in i..Len(request.files) :
                      \/ request.endpoint = "/upload"
                      \/ request.files[k].ext \in {"jpg", "jpeg", "png"} }
    IN  IF reads = {} THEN Len(request.files) + 1
        ELSE CHOOSE k \in reads : \A j \in reads : k <= j

\* The handler returns response r, or raises the exception that becomes it.
Answer(h, r) ==
    /\ resp' = r
    /\ UNCHANGED job
    /\ Goto(h, "respond")

\* A request r for a protected endpoint reaches the application.
Receive(h, r) ==
    /\ running = NoHandler
    /\ pc[h] = "idle"
    /\ \A j \in Handlers : j < h => pc[j] # "idle"
    /\ job' = [job EXCEPT ![h] = NewJob(r)]
    /\ Goto(h, "dispatch")
    /\ UNCHANGED <<now, mw_clients, up_clients, req, t, kept, before, resp, passed,
                   mw_recent, up_recent>>
    /\ UNCHANGED <<anaVars, ocr_reader, users, readers_built, disk, reports, next_id>>

\* RateLimitMiddleware.dispatch: purge, count, append, await call_next(request)
Middleware(h) ==
    /\ CanRun(h)
    /\ pc[h] = "dispatch"
    /\ LET c == get_client_ip(job[h].request)
           list == purge(mw_clients[c], now, mw_limit.period)
       IN  IF exceeded(list, mw_limit)
           THEN /\ mw_clients' = [mw_clients EXCEPT ![c] = list]
                /\ Answer(h, rate_limit_error(mw_limit))
           ELSE /\ mw_clients' = [mw_clients EXCEPT ![c] = Append(list, now)]
                /\ Goto(h, "call_next")
                /\ UNCHANGED <<resp, job>>
    /\ UNCHANGED <<now, up_clients, req, t, kept, before, passed, mw_recent, up_recent>>
    /\ UNCHANGED <<anaVars, ocr_reader, users, readers_built, disk, reports, next_id>>

\* The route: Depends(get_current_user), then the body of the endpoint up to
\* its first await: upload_rate_limit.check_rate_limit(request), the
\* validation of the file or of every file, `await file.read()`.
Route(h) ==
    /\ CanRun(h)
    /\ pc[h] = "call_next"
    /\ LET r == job[h].request
           c == get_client_ip(r)
           list == purge(up_clients[c], now, upload_rate_limit.period)
       IN  IF ~get_current_user(r)
           THEN Answer(h, unauthorized) /\ UNCHANGED up_clients
           ELSE IF r.endpoint \notin Ingestion
           THEN Answer(h, Ok) /\ UNCHANGED up_clients
           ELSE IF exceeded(list, upload_rate_limit)
           THEN /\ up_clients' = [up_clients EXCEPT ![c] = list]
                /\ Answer(h, rate_limit_error(upload_rate_limit))
           ELSE /\ up_clients' = [up_clients EXCEPT ![c] = Append(list, now)]
                /\ IF r.endpoint = "/upload_batch" /\ r.files = <<>>
                   THEN Answer(h, no_files_error)
                   ELSE IF ~validate_all_files(r.files)
                   THEN Answer(h, invalid_file_error)
                   ELSE IF next_image(r, 1) > Len(r.files)
                   THEN Answer(h, no_images_error)
                   ELSE /\ job' = [job EXCEPT ![h].index = next_image(r, 1)]
                        /\ Goto(h, "read_file")
                        /\ UNCHANGED resp
    /\ UNCHANGED <<now, mw_clients, req, t, kept, before, passed, mw_recent, up_recent>>
    /\ UNCHANGED <<anaVars, ocr_reader, users, readers_built, disk, reports, next_id>>

\* After `content = await file.read()`: the image is written to UPLOAD_FOLDER
\* and extract_temperature_from_image calls get_ocr_reader().
SaveImage(h) ==
    /\ CanRun(h)
    /\ pc[h] = "read_file"
    /\ next_id <= MaxImages
    /\ LET r == job[h].request
           file == r.files[job[h].index]
       IN  IF r.endpoint = "/upload" /\ ~file.size_ok
           THEN Answer(h, server_error) /\ UNCHANGED <<disk, next_id>>
           ELSE /\ disk' = disk \cup {next_id}
                /\ next_id' = next_id + 1
                /\ job' = [job EXCEPT ![h].image_path = next_id]
                /\ Goto(h, "get_ocr_reader")
                /\ UNCHANGED resp
    /\ UNCHANGED <<now, mw_clients, up_clients, req, t, kept, before, passed, mw_recent,
                   up_recent>>
    /\ UNCHANGED <<anaVars, ocr_reader, users, readers_built, reports>>

\* get_ocr_reader: `if ocr_reader is not None: return ocr_reader`
GetReader(h) ==
    /\ CanRun(h)
    /\ pc[h] = "get_ocr_reader"
    /\ IF ocr_reader # "None"
       THEN /\ job' = [job EXCEPT ![h].reader = ocr_reader]
            /\ Goto(h, "commit")
       ELSE /\ Goto(h, "construct")
            /\ UNCHANGED job
    /\ UNCHANGED <<now, mw_clients, up_clients, req, t, kept, before, resp, passed,
                   mw_recent, up_recent>>
    /\ UNCHANGED <<anaVars, ocr_reader, users, readers_built, disk, reports, next_id>>

\* get_ocr_reader: `ocr_reader = easyocr.Reader(...)`, or None when the import
\* or the constructor raises; the analysis follows up to the report record.
Construct(h, easyocr_ok) ==
    /\ CanRun(h)
    /\ pc[h] = "construct"
    /\ ocr_reader' = IF easyocr_ok THEN "Reader" ELSE "None"
    /\ readers_built' = IF easyocr_ok THEN readers_built + 1 ELSE readers_built
    /\ job' = [job EXCEPT ![h].reader = ocr_reader']
    /\ Goto(h, "commit")
    /\ UNCHANGED <<now, mw_clients, up_clients, req, t, kept, before, resp, passed,
                   mw_recent, up_recent>>
    /\ UNCHANGED <<anaVars, users, disk, reports, next_id>>

\* `except Exception` of upload_thermal_image removes the image file; an
\* exception of upload_batch goes to the global handler, which removes nothing
after_exception(h) ==
    IF job[h].request.endpoint = "/upload" THEN disk \ {job[h].image_path} ELSE disk

\* db.add(record); db.commit(); db.refresh(record): the commit may raise
Commit(h, raises) ==
    /\ CanRun(h)
    /\ pc[h] = "commit"
    /\ IF raises
       THEN /\ disk' = after_exception(h)
            /\ Answer(h, server_error)
            /\ UNCHANGED reports
       ELSE /\ reports' = reports \cup {job[h].image_path}
            /\ Goto(h, "finish")
            /\ UNCHANGED <<disk, resp, job>>
    /\ UNCHANGED <<now, mw_clients, up_clients, req, t, kept, before, passed, mw_recent,
                   up_recent>>
    /\ UNCHANGED <<anaVars, ocr_reader, users, readers_built, next_id>>

\* What follows the commit of the report.  /upload: the response object, the
\* audit log entry and its db.commit(), the log lines; /upload_batch: the
\* response object, then the next file or the combined PDF and the answer.
Finish(h, raises) ==
    /\ CanRun(h)
    /\ pc[h] = "finish"
    /\ IF raises
       THEN /\ disk' = after_exception(h)
            /\ Answer(h, server_error)
       ELSE /\ IF next_image(job[h].request, job[h].index + 1) <= Len(job[h].request.files)
               THEN /\ job' = [job EXCEPT ![h].index =
                                                next_image(job[h].request, job[h].index + 1)]
                    /\ Goto(h, "read_file")
                    /\ UNCHANGED resp
               ELSE Answer(h, Ok)
            /\ UNCHANGED disk
    /\ UNCHANGED <<now, mw_clients, up_clients, req, t, kept, before, passed, mw_recent,
                   up_recent>>
    /\ UNCHANGED <<anaVars, ocr_reader, users, readers_built, reports, next_id>>

\* The response leaves the application and the handler is free for the next
\* request.
SendResponse(h) ==
    /\ CanRun(h)
    /\ pc[h] = "respond"
    /\ job' = [job EXCEPT ![h] = [request |-> [endpoint |-> ""]]]
    /\ resp' = NoResp
    /\ Goto(h, "idle")
    /\ UNCHANGED <<now, mw_clients, up_clients, req, t, kept, before, passed, mw_recent,
                   up_recent>>
    /\ UNCHANGED <<anaVars, ocr_reader, users, readers_built, disk, reports, next_id>>

NextUpload ==
    \/ Tick
    \/ \E h \in Handlers : SendResponse(h)
    \/ \E h \in Handlers, r \in ProtectedRequests : Receive(h, r)
    \/ \E h \in Handlers : Middleware(h)
    \/ \E h \in Handlers : Route(h)
    \/ \E h \in Handlers : SaveImage(h)
    \/ \E h \in Handlers : GetReader(h)
    \/ \E h \in Handlers, ok \in BOOLEAN : Construct(h, ok)
    \/ \E h \in Handlers, raises \in BOOLEAN : Commit(h, raises)
    \/ \E h \in Handlers, raises \in BOOLEAN : Finish(h, raises)

SpecUpload == Init /\ [][NextUpload]_vars

\* The statements of the handlers in H, serving requests drawn from R.
Run(H, R) ==
    \/ \E h \in H, r \in R : Dispatch(h, r)
    \/ \E h \in H : MwWrite(h)
    \/ \E h \in H : MwCount(h)
    \/ \E h \in H : MwAppend(h)
    \/ \E h \in H, path \in Endpoints : CallNext(h, path)
    \/ \E h \in H : UpWrite(h)
    \/ \E h \in H : UpCount(h)
    \/ \E h \in H : UpAppend(h)
    \/ \E h \in H, valid \in BOOLEAN : Validate(h, valid)
    \/ \E h \in H : Process(h)

\* Concurrent handlers serving the requests of one client.
Next == Tick \/ Run(Handlers, DirectRequests)

Spec == Init /\ [][Next]_vars

\* One handler at a time (requests served one after the other), for a client
\* behind a proxy and a client whose address is not known.
NextClients == Tick \/ Run({1}, Requests \ DirectRequests)

SpecClients == Init /\ [][NextClients]_vars

(***************************************************************************)
(* Properties of the limiters.                                             *)
(***************************************************************************)
Client(h) == get_client_ip(req[h])
Unexpired(list, time) == {i \in DOMAIN list : time - list[i] < Period}
Count(list, ts) == Cardinality({i \in DOMAIN list : list[i] = ts})
Range(seq) == {seq[i] : i \in DOMAIN seq}
\* the words of phrase stand next to each other in text
Contains(text, phrase) ==
    \E i \in 0..(Len(text) - Len(phrase)) :
        \A j \in 1..Len(phrase) : text[i + j] = phrase[j]
InMwCheck(h) == pc[h] \in {"mw_write", "mw_count", "mw_append"}
InUpCheck(h) == pc[h] \in {"up_write", "up_count", "up_append"}
\* handler h leaves statement p in this step
Leaves(h, p) == pc[h] = p /\ pc'[h] # p

\* C1: For each limiter and every client, the admissions of any window of one
\* period (the requests admitted less than `period` ago) number at most `calls`,
\* and the client's list never holds more than `calls` unexpired timestamps.
C1_AtMostCallsPerWindow ==
    \A c \in Identities :
        /\ Len(mw_recent[c]) <= mw_limit.calls
        /\ Len(up_recent[c]) <= upload_rate_limit.calls
        /\ Cardinality(Unexpired(mw_clients[c], now)) <= mw_limit.calls
        /\ Cardinality(Unexpired(up_clients[c], now)) <= upload_rate_limit.calls

\* C1 witness: a client has used up both limits within one period.
C1_Witness ==
    \E c \in Identities :
        /\ Len(mw_recent[c]) = mw_limit.calls
        /\ Len(up_recent[c]) = upload_rate_limit.calls
        /\ Len(up_clients[c]) = upload_rate_limit.calls

\* C2: Two handlers are never both inside the purge / count / append steps of a
\* check on the list of the same client; whatever the interleaving, no client
\* has more than `calls` admissions within one period, and every admission of
\* the last period is still in the client's list.
C2_ChecksMutuallyExclusive ==
    /\ \A h1, h2 \in Handlers :
          (h1 # h2 /\ Client(h1) = Client(h2)) =>
              /\ ~(InMwCheck(h1) /\ InMwCheck(h2))
              /\ ~(InUpCheck(h1) /\ InUpCheck(h2))
    /\ \A c \in Identities :
          /\ Len(mw_recent[c]) <= mw_limit.calls
          /\ Len(up_recent[c]) <= upload_rate_limit.calls
          /\ \A ts \in 0..MaxTime :
                /\ Count(mw_recent[c], ts) <= Count(mw_clients[c], ts)
                /\ Count(up_recent[c], ts) <= Count(up_clients[c], ts)

\* C2 witness: a handler is inside the upload check of a client while another
\* handler, suspended after its own admission, serves the same client.
C2_Witness ==
    \E h1, h2 \in Handlers :
        /\ h1 # h2
        /\ pc[h1] = "up_count"
        /\ pc[h2] = "read_file"
        /\ Client(h1) = Client(h2)
        /\ Len(up_clients[Client(h1)]) = upload_rate_limit.calls

\* C3: A check is admitted whenever fewer than `calls` requests of its client
\* were admitted within the last period (so the first `calls` checks of a fresh
\* window are), and a check that finds `calls` admissions within the last
\* period is rejected with retry_after equal to the period.
C3_FirstCallsAdmittedNextRejected ==
    [][\A h \in Handlers :
          /\ Leaves(h, "mw_count") =>
                IF Len(mw_recent[Client(h)]) < mw_limit.calls
                THEN pc'[h] = "mw_append"
                ELSE /\ pc'[h] = "idle"
                     /\ resp'.status_code = 429
                     /\ resp'.detail.retry_after = mw_limit.period
          /\ Leaves(h, "up_count") =>
                IF Len(up_recent[Client(h)]) < upload_rate_limit.calls
                THEN pc'[h] = "up_append"
                ELSE /\ pc'[h] = "idle"
                     /\ resp'.status_code = 429
                     /\ resp'.detail.retry_after = upload_rate_limit.period]_vars

\* C3 witness: the window of a client holds `calls` admissions and the check
\* that came next was rejected with retry_after = period.
C3_Witness ==
    /\ resp.status_code = 429
    /\ resp.detail.retry_after = Period
    /\ \A h \in Handlers : pc[h] = "idle"
    /\ \E c \in Identities :
          /\ Len(up_recent[c]) = upload_rate_limit.calls
          /\ Len(mw_recent[c]) < mw_limit.calls

\* C4: A check made once a full period has elapsed since the oldest timestamp
\* of the client's list is admitted; a rejected check leaves in the list
\* exactly the unexpired timestamps it found and appends nothing.
C4_AdmittedOnceOldestExpired ==
    [][\A h \in Handlers :
          /\ Leaves(h, "mw_count") =>
                /\ (before[h] # <<>> /\ t[h] - Head(before[h]) >= mw_limit.period)
                      => pc'[h] = "mw_append"
                /\ pc'[h] = "idle" =>
                      mw_clients'[Client(h)] =
                          SelectSeq(before[h], LAMBDA ts : t[h] - ts < Period)
          /\ Leaves(h, "up_count") =>
                /\ (before[h] # <<>> /\ t[h] - Head(before[h]) >= upload_rate_limit.period)
                      => pc'[h] = "up_append"
                /\ pc'[h] = "idle" =>
                      up_clients'[Client(h)] =
                          SelectSeq(before[h], LAMBDA ts : t[h] - ts < Period)]_vars

\* C4 witness: after a rejection, a check that found the list full is admitted
\* because the oldest timestamp is a full period old.
C4_Witness ==
    \E h \in Handlers :
        /\ pc[h] = "up_append"
        /\ Len(before[h]) = upload_rate_limit.calls
        /\ t[h] - Head(before[h]) >= upload_rate_limit.period
        /\ resp.status_code = 429

\* C5: Every request that reaches its route was admitted by the general
\* limiter, and every ingestion request that is validated, analysed or stored
\* was admitted by the general limiter and by the ingestion limiter.
C5_IngestionPassedBothLimiters ==
    \A h \in Handlers :
        /\ pc[h] \notin {"idle", "mw_write", "mw_count", "mw_append"}
              => "general" \in passed[h]
        /\ pc[h] \in {"validate", "read_file"}
              => passed[h] = {"general", "upload"}

\* C6: A request of a client that already had `calls` requests let through by
\* the general limiter within the last period is not let through, whatever its
\* headers; the answer of the general limiter to it has status 429 and a detail
\* whose message contains "Rate limit exceeded" and which has a retry_after.
C6_OverLimitAnswered429 ==
    [][\A h \in Handlers, r \in Requests :
          /\ (pc[h] = "idle" /\ req'[h] = r /\ pc'[h] = "call_next")
                => Len(mw_recent[get_client_ip(r)]) < mw_limit.calls
          /\ (Leaves(h, "mw_count") /\ pc'[h] = "idle") =>
                /\ resp'.status_code = 429
                /\ "retry_after" \in DOMAIN resp'.detail
                /\ "message" \in DOMAIN resp'.detail
                /\ Contains(resp'.detail.message, <<"Rate", "limit", "exceeded">>)]_vars

C8_NormalAtOrBelowThreshold ==
    (call.fn = "classify_fault_level" /\ call.delta_t <= call.threshold)
        => out = "NORMAL"

\* C8 witness: priority CRITICAL, a positive delta_t equal to the threshold.
C8_Witness ==
    /\ call.fn = "classify_fault_level"
    /\ call.priority = "CRITICAL"
    /\ call.delta_t = call.threshold
    /\ call.delta_t > 0
    /\ out = "NORMAL"

\* C9: for delta_t > threshold, classify_fault_level returns CRITICAL exactly
\* when the priority is CRITICAL or delta_t > 2 * threshold, WARNING otherwise.
C9_CriticalOrWarningAboveThreshold ==
    (call.fn = "classify_fault_level" /\ call.delta_t > call.threshold) =>
        /\ out \in {"CRITICAL", "WARNING"}
        /\ out = "CRITICAL" <=>
              (call.priority = "CRITICAL" \/ call.delta_t > 2 * call.threshold)

\* C9 witness: delta_t equal to twice the threshold, priority HIGH, WARNING.
C9_Witness ==
    /\ call.fn = "classify_fault_level"
    /\ call.priority = "HIGH"
    /\ call.threshold > 0
    /\ call.delta_t = 2 * call.threshold
    /\ out = "WARNING"

\* C10: the dynamic threshold is at least 2.0 for every voltage in
\* {66, 110, 220, 400}, capacity in 0..5000 and commissioning year in 1950..2024.
C10_ThresholdAtLeastFloor ==
    call.fn = "get_dynamic_threshold" => out >= 2000

\* C10 witness: an old, high-capacity 66 kV line, whose adjustments would take
\* the threshold below the floor.
C10_Witness ==
    /\ call.fn = "get_dynamic_threshold"
    /\ call.metadata.voltage_kv = 66
    /\ call.metadata.commissioning_year = MinYear
    /\ 5000 - 2000 - call.metadata.capacity_amps < 2000
    /\ out = 2000

\* The threshold contract of the specification, for a reference year given by
\* the caller (thousandths of a degree).
threshold(voltage_kv, capacity_amps, commissioning_year, reference_year) ==
    LET base == IF voltage_kv >= 220 THEN 8000 ELSE 5000
    IN  Max(base - Min((reference_year - commissioning_year) * 100, 2000) - capacity_amps,
            2000)

\* C11: the threshold returned for (voltage_kv, capacity_amps,
\* commissioning_year) in the year reference_year equals
\* max(base - min((reference_year - commissioning_year) * 0.1, 2.0)
\*     - capacity_amps / 1000, 2.0), for every reference year.
C11_ThresholdFollowsReferenceYear ==
    call.fn = "get_dynamic_threshold" =>
        out = threshold(call.metadata.voltage_kv, call.metadata.capacity_amps,
                        call.metadata.commissioning_year, call.reference_year)

\* C17: the priority derived from metadata is CRITICAL when the voltage is at
\* least 220, else HIGH when the capacity is above 1000 (exactly 1000 is not
\* HIGH), else MEDIUM; when no key of the line metadata matches,
\* get_tower_metadata returns voltage 110, capacity 1000, commissioning year
\* 2000 and priority MEDIUM.
C17_PriorityFromMetadata ==
    LET Derived(v, c) == IF v >= 220 THEN "CRITICAL"
                         ELSE IF c > 1000 THEN "HIGH" ELSE "MEDIUM"
        KeyMatches == \/ direct_match(call.tower_metadata, call.camp_name) # 0
                      \/ pattern_match(call.tower_metadata, call.camp_name) # 0
                      \/ name_match(call.tower_metadata, call.tower_name) # 0
    IN  /\ call.fn = "_calculate_priority"
            => out = Derived(call.voltage_kv, call.capacity_amps)
        /\ call.fn = "get_tower_metadata" =>
            /\ out.priority = Derived(out.voltage_kv, out.capacity_amps)
            /\ KeyMatches =>
                \E i \in DOMAIN call.tower_metadata :
                    /\ out.voltage_kv = call.tower_metadata[i].metadata.voltage_kv
                    /\ out.capacity_amps = call.tower_metadata[i].metadata.capacity_amps
            /\ ~KeyMatches =>
                /\ out.voltage_kv = 110
                /\ out.capacity_amps = 1000
                /\ out.commissioning_year = 2000
                /\ out.priority = "MEDIUM"

\* C17 witness: a matched 110 kV line of exactly 1000 A has priority MEDIUM.
C17_Witness ==
    /\ call.fn = "get_tower_metadata"
    /\ pattern_match(call.tower_metadata, call.camp_name) # 0
    /\ out.voltage_kv = 110
    /\ out.capacity_amps = 1000
    /\ out.commissioning_year = 2015
    /\ out.priority = "MEDIUM"

\* C15: over a non-empty registry find_nearest_tower returns the entry whose
\* distance to (lat, lon) is minimal over all entries, the first in registry
\* order among the entries at that distance, and the returned distance is that
\* minimum.
C15_NearestIsFirstMinimum ==
    call.fn = "find_nearest_tower" =>
        LET rows == call.towers_df
            Placed == {i \in DOMAIN rows : rows[i].position_parses}
            Dist(i) == haversine_distance(call.lat, call.lon,
                                          rows[i].latitude, rows[i].longitude)
            best == CHOOSE i \in Placed :
                        /\ \A j \in Placed : Dist(i) <= Dist(j)
                        /\ \A j \in Placed : j < i => Dist(j) > Dist(i)
        IN  Placed # {} =>
                /\ out # None
                /\ out[1].tower_name = rows[best].tower_name
                /\ out[1].latitude = rows[best].latitude
                /\ out[1].longitude = rows[best].longitude
                /\ rows[best].id_parses /\ out[1].tower_id = rows[best].tower_id
                /\ out[1].distance_km = Dist(best)

\* the detections that pass the confidence filter
Surviving(ocr_results) ==
    SelectSeq(ocr_results, LAMBDA d : d.conf >= OCR_CONFIDENCE_THRESHOLD /\ d.text # <<>>)

\* C13: when the recognizer is unavailable, extraction returns the absent
\* value and never a number.
C13_NoReadingWithoutRecognizer ==
    (call.fn = "extract_temperature_from_image" /\ call.reader = "None")
        => out = None

\* C18: every temperature candidate created during extraction, and every
\* reading extraction returns, lies within the plausible range [20, 80].
C18_CandidatesWithinRange ==
    call.fn = "extract_temperature_from_image" =>
        LET c == candidates(call.ocr_results)
            Plausible(val) == 20000 <= val /\ val <= 80000
        IN  /\ \A k \in DOMAIN c.numbers : Plausible(c.numbers[k].val)
            /\ \A k \in DOMAIN c.degree_candidates : Plausible(c.degree_candidates[k].val)
            /\ out # None => Plausible(out[1])

\* C18 witness: a surviving detection holds a number outside the range, and a
\* reading is returned from the detections.
C18_Witness ==
    /\ call.fn = "extract_temperature_from_image"
    /\ call.reader = "Reader"
    /\ \E i \in DOMAIN call.ocr_results :
          /\ call.ocr_results[i].conf >= OCR_CONFIDENCE_THRESHOLD
          /\ \E n \in Numerals : /\ n.value > 80000
                                 /\ is_in(n.text, call.ocr_results[i].text)
    /\ out # None

\* C19: when the surviving detections are one detection whose text is a value
\* v of the plausible range (1 to 3 integer digits, at most 2 decimals) followed
\* by a unit mark, extraction returns exactly v.
C19_UnitMarkedValueReturned ==
    (call.fn = "extract_temperature_from_image" /\ call.reader = "Reader") =>
        \A n \in Numerals, u \in UnitMarks :
            ( /\ 20000 <= n.value /\ n.value <= 80000
              /\ Len(Surviving(call.ocr_results)) = 1
              /\ Surviving(call.ocr_results)[1].text = n.text \o u )
            => out = Some(n.value)

\* C19 witness: the reading 39.25 with a unit mark, next to a detection that
\* the confidence filter drops.
C19_Witness ==
    /\ call.fn = "extract_temperature_from_image"
    /\ call.reader = "Reader"
    /\ Len(call.ocr_results) = 2
    /\ Len(Surviving(call.ocr_results)) = 1
    /\ \E u \in UnitMarks :
          Surviving(call.ocr_results)[1].text = <<"3", "9", ".", "2", "5">> \o u
    /\ out = Some(39250)

\* C12: when a reading is present and no asset is matched, the single upload
\* and the batch upload both classify with
\* classify(measured - ambient, 5.0, MEDIUM); measured 40 and ambient 28 give
\* CRITICAL.
C12_UnmatchedReadingClassifiedByDefaults ==
    (call.fn \in IngestionPaths /\ out.image_temp # None /\ out.tower_id = None) =>
        LET delta == out.image_temp[1] - out.ambient_temp
        IN  /\ out.fault_level =
                  (IF delta <= 5000 THEN "NORMAL"
                   ELSE IF delta > 10000 THEN "CRITICAL" ELSE "WARNING")
            /\ (out.image_temp[1] = 40000 /\ out.ambient_temp = 28000)
                  => out.fault_level = "CRITICAL"

\* C14: the status is 'success' exactly when a reading and an asset match
\* exist, 'partial' exactly when a reading exists and no asset was matched; with
\* no reading the status is neither, delta_t is absent and the fault level is
\* NORMAL.
C14_StatusFollowsReadingAndMatch ==
    call.fn \in IngestionPaths =>
        /\ out.analysis_status = "success" <=> (out.image_temp # None /\ out.tower_id # None)
        /\ out.analysis_status = "partial" <=> (out.image_temp # None /\ out.tower_id = None)
        /\ out.image_temp = None =>
              /\ out.analysis_status \notin {"success", "partial"}
              /\ out.delta_t = None
              /\ out.fault_level = "NORMAL"
        /\ out.image_temp # None => out.delta_t = Some(out.image_temp[1] - out.ambient_temp)

\* C14 witness: a batch image with a reading from the recognizer, a decoded
\* position and an empty registry is stored as 'partial'.
C14_Witness ==
    /\ call.fn = "_process_and_store_image"
    /\ call.reader = "Reader"
    /\ call.gps # None
    /\ call.towers_df = <<>>
    /\ out.image_temp = Some(39200)
    /\ out.analysis_status = "partial"

\* C16: the asset match is absent only when the registry is empty or the image
\* supplied no coordinates: whenever a latitude and a longitude were decoded
\* (for every value, 0 included) and the registry is not empty, an asset is
\* matched.
C16_MatchedWheneverPositionDecoded ==
    (call.fn \in IngestionPaths /\ call.gps # None /\ call.towers_df # <<>>)
        => out.tower_id # None

UnitMarked(text) ==
    \/ is_in(<<"deg">>, text)
    \/ is_in(<<"c">>, lower(text))
    \/ is_in(<<"f">>, lower(text))
\* the centre of bbox lies in the half of the band that region favours
InFavouredHalf(region, bbox, width) ==
    IF region = "top_right" THEN bbox_center2(bbox).x >= width
    ELSE bbox_center2(bbox).x <= width
HighestConfidence(entries) == {n \in entries : \A m \in entries : m.conf <= n.conf}

\* C23: selection returns the pick of the first stage that yields a candidate,
\* in the order label proximity, unit-marked, side preference, global best; the
\* side-preference stage is in the chain whenever the region favours a side
\* (top_left or top_right) and picks the highest-confidence candidate of the
\* favoured half; when no stage yields a candidate the result is absent.
C23_FirstYieldingStageWins ==
    (call.fn = "extract_temperature_from_image" /\ call.reader = "Reader") =>
        LET c == candidates(call.ocr_results)
            all == Range(c.numbers)
            label == pick_near_label(c, BandHeight)
            marked == {n \in all : \/ UnitMarked(n.text)
                                    \/ is_in(<<"m", "a", "x">>, lower(n.text))}
            side == IF call.region \in {"top_left", "top_right"}
                    THEN {n \in all : InFavouredHalf(call.region, n.bbox, ImageWidth)}
                    ELSE {}
            stage == IF marked # {} THEN marked ELSE IF side # {} THEN side ELSE all
        IN  IF label # None THEN out = label
            ELSE IF all = {} THEN out = None
            ELSE \E n \in HighestConfidence(stage) : out = Some(n.val)

\* C24: only candidates whose source text carried a degree or unit mark are
\* eligible at the unit-marked stage and receive the bonus of 0.1; a candidate
\* from a bare number whose text has no unit mark keeps the confidence of its
\* detection and can be returned only by the side-preference or the global-best
\* stage.
C24_BonusOnlyForUnitMarkedText ==
    (call.fn = "extract_temperature_from_image" /\ call.reader = "Reader") =>
        LET c == candidates(call.ocr_results)
            Bare(text) == ~UnitMarked(text) /\ ~is_in(<<"m", "a", "x">>, lower(text))
        IN  /\ \A k \in DOMAIN c.degree_candidates :
                  ~Bare(c.degree_candidates[k].text)
            /\ \A k \in DOMAIN c.numbers :
                  Bare(c.numbers[k].text) =>
                      \E i \in DOMAIN call.ocr_results :
                          /\ strip(call.ocr_results[i].text) = c.numbers[k].text
                          /\ call.ocr_results[i].bbox = c.numbers[k].bbox
                          /\ call.ocr_results[i].conf = c.numbers[k].conf

\* the stages of the enrichment, for key i of the registry
GroupLabelInKey(i) ==
    /\ call.camp_name # <<>>
    /\ is_in(lower(call.camp_name), lower(call.tower_metadata[i].line_name))
AliasHitsKey(a, i) ==
    /\ call.camp_name # <<>>
    /\ is_in(camp_mappings[a].pattern, lower(call.camp_name))
    /\ \E k \in DOMAIN camp_mappings[a].keywords :
          is_in(camp_mappings[a].keywords[k], lower(call.tower_metadata[i].line_name))
AssetNameInKey(i) ==
    LET name == strip(replace_by_nothing(lower(call.tower_name), <<"l", "o", "c", ".">>))
    IN  name # <<>> /\ is_in(name, lower(call.tower_metadata[i].line_name))
Keys == DOMAIN call.tower_metadata
\* out is the metadata of the first key among matching, the defaults when
\* matching is empty
EnrichedFromFirstOf(matching) ==
    IF matching = {}
    THEN /\ out.voltage_kv = 110
         /\ out.capacity_amps = 1000
         /\ out.commissioning_year = 2000
         /\ out.priority = "MEDIUM"
    ELSE LET first == CHOOSE i \in matching : \A j \in matching : i <= j
             metadata == call.tower_metadata[first].metadata
         IN  /\ out.voltage_kv = metadata.voltage_kv
             /\ out.capacity_amps = metadata.capacity_amps
             /\ out.commissioning_year = metadata.commissioning_year

\* C25: enrich(assetName, groupLabel) returns the metadata of the first registry
\* key, in registry order, matched by the earliest stage that has any match:
\* (1) the group label inside a key, (2) an alias code inside the group label
\* with a key that contains one of the alias's keywords, (3) the normalized
\* asset name inside a key; defaults are returned when no stage matches.
C25_FirstKeyOfEarliestStage ==
    call.fn = "get_tower_metadata" =>
        LET stage1 == {i \in Keys : GroupLabelInKey(i)}
            stage2 == {i \in Keys : \E a \in DOMAIN camp_mappings : AliasHitsKey(a, i)}
            stage3 == {i \in Keys : AssetNameInKey(i)}
        IN  EnrichedFromFirstOf(IF stage1 # {} THEN stage1
                                ELSE IF stage2 # {} THEN stage2
                                ELSE stage3)

\* C25, as the code has it: in stage (2) the aliases are tried in the order of
\* the alias table, and the first alias that hits any key decides: the result
\* is the first key, in registry order, hit by that alias.  The stages (1) and
\* (3), their order and the defaults are as stated.
C25_FirstKeyOfFirstAlias ==
    call.fn = "get_tower_metadata" =>
        LET stage1 == {i \in Keys : GroupLabelInKey(i)}
            aliases == {a \in DOMAIN camp_mappings : \E i \in Keys : AliasHitsKey(a, i)}
            alias == CHOOSE a \in aliases : \A b \in aliases : a <= b
            stage2 == IF aliases = {} THEN {} ELSE {i \in Keys : AliasHitsKey(alias, i)}
            stage3 == {i \in Keys : AssetNameInKey(i)}
        IN  EnrichedFromFirstOf(IF stage1 # {} THEN stage1
                                ELSE IF stage2 # {} THEN stage2
                                ELSE stage3)

\* C25 witness: the group label holds the alias codes kks and khopoli, the key
\* of khopoli stands first in the registry, and the line of kks is returned.
C25_Witness ==
    /\ call.fn = "get_tower_metadata"
    /\ call.tower_metadata = <<LineBhira, LineKalwa>>
    /\ is_in(<<"k", "k", "s">>, lower(call.camp_name))
    /\ is_in(<<"k", "h", "o", "p", "o", "l", "i">>, lower(call.camp_name))
    /\ out.voltage_kv = LineKalwa.metadata.voltage_kv
    /\ out.commissioning_year = LineKalwa.metadata.commissioning_year

\* C28: a registry row whose latitude, longitude or id cannot be parsed is
\* skipped without influencing the outcome: find_nearest_tower returns a row of
\* minimal distance among the rows that parse completely, whatever the position
\* and distance of the unparsable rows.
C28_UnparsableRowsWithoutInfluence ==
    call.fn = "find_nearest_tower" =>
        LET rows == call.towers_df
            Whole == {i \in DOMAIN rows : rows[i].position_parses /\ rows[i].id_parses}
            Dist(i) == haversine_distance(call.lat, call.lon,
                                          rows[i].latitude, rows[i].longitude)
        IN  IF Whole = {} THEN out = None
            ELSE /\ out # None
                 /\ \E i \in Whole :
                       /\ \A j \in Whole : Dist(i) <= Dist(j)
                       /\ out[1].tower_id = rows[i].tower_id
                       /\ out[1].latitude = rows[i].latitude
                       /\ out[1].longitude = rows[i].longitude

\* an entry of value ts leaves the list on this step
LeavesList(list_before, list_after, ts) == Count(list_after, ts) < Count(list_before, ts)

\* C26: each check removes from the client's list exactly the timestamps
\* older than `period` and keeps every other one, so a timestamp whose age is
\* exactly `period` is still counted against the limit; entries leave a list
\* only through this purge.
C26_PurgeKeepsBoundary ==
    [][\A h \in Handlers :
          /\ Leaves(h, "mw_write") =>
                mw_clients'[Client(h)] =
                    SelectSeq(mw_clients[Client(h)],
                              LAMBDA ts : ~(t[h] - ts > mw_limit.period))
          /\ Leaves(h, "up_write") =>
                up_clients'[Client(h)] =
                    SelectSeq(up_clients[Client(h)],
                              LAMBDA ts : ~(t[h] - ts > upload_rate_limit.period))]_vars

\* C26, as the code has it: each check removes from the client's list exactly
\* the timestamps whose age is `period` or more and keeps every younger one, in
\* their order, so a timestamp whose age is exactly `period` is no longer
\* counted; entries leave a list only through this purge.
C26_PurgeRemovesFromBoundaryOn ==
    [][/\ \A h \in Handlers :
             /\ Leaves(h, "mw_write") =>
                   mw_clients'[Client(h)] =
                       SelectSeq(mw_clients[Client(h)],
                                 LAMBDA ts : ~(t[h] - ts >= mw_limit.period))
             /\ Leaves(h, "up_write") =>
                   up_clients'[Client(h)] =
                       SelectSeq(up_clients[Client(h)],
                                 LAMBDA ts : ~(t[h] - ts >= upload_rate_limit.period))
       /\ \A c \in Identities, ts \in 0..MaxTime :
             /\ LeavesList(mw_clients[c], mw_clients'[c], ts) =>
                   \E h \in Handlers : /\ Leaves(h, "mw_write")
                                       /\ Client(h) = c
                                       /\ t[h] - ts >= mw_limit.period
             /\ LeavesList(up_clients[c], up_clients'[c], ts) =>
                   \E h \in Handlers : /\ Leaves(h, "up_write")
                                       /\ Client(h) = c
                                       /\ t[h] - ts >= upload_rate_limit.period]_vars

\* C26 witness: a check of the ingestion limiter found a timestamp exactly one
\* period old and has written the list without it.
C26_Witness ==
    \E h \in Handlers :
        /\ pc[h] = "up_count"
        /\ before[h] # <<>>
        /\ t[h] - Head(before[h]) = upload_rate_limit.period
        /\ up_clients[Client(h)] = <<>>

\* the identity of the client of handler h, read from its request
IdentityOf(h) ==
    IF req[h].xff # <<>> THEN Head(req[h].xff)
    ELSE IF req[h].host # "" THEN req[h].host ELSE "unknown"

\* C29: limiter state is isolated per client identity and per instance: a
\* check for identity A never changes the list of another identity B, the
\* decisions for A follow from A's own admissions whatever other identities
\* request, and a check on one limiter instance leaves the lists of the other
\* instance unchanged.
C29_ListsIsolated ==
    [][/\ \A c \in Identities :
             /\ mw_clients'[c] # mw_clients[c] =>
                   \E h \in Handlers : InMwCheck(h) /\ pc'[h] # pc[h] /\ IdentityOf(h) = c
             /\ up_clients'[c] # up_clients[c] =>
                   \E h \in Handlers : InUpCheck(h) /\ pc'[h] # pc[h] /\ IdentityOf(h) = c
       /\ \A h \in Handlers :
             /\ (InMwCheck(h) /\ pc'[h] # pc[h]) => up_clients' = up_clients
             /\ (InUpCheck(h) /\ pc'[h] # pc[h]) => mw_clients' = mw_clients
             /\ Leaves(h, "mw_count") =>
                   (pc'[h] = "idle" <=> Len(mw_recent[IdentityOf(h)]) >= mw_limit.calls)
             /\ Leaves(h, "up_count") =>
                   (pc'[h] = "idle" <=>
                       Len(up_recent[IdentityOf(h)]) >= upload_rate_limit.calls)]_vars

\* C29 witness: a request is admitted by the ingestion limiter while the
\* window of another identity is full and a third party was just rejected.
C29_Witness ==
    \E h \in Handlers :
        /\ pc[h] = "up_append"
        /\ up_clients[IdentityOf(h)] = <<>>
        /\ \E c \in Identities \ {IdentityOf(h)} :
              Len(up_recent[c]) = upload_rate_limit.calls
        /\ resp.status_code = 429

\* the request of handler h is a batch with a file that fails validation
InvalidBatch(h) ==
    /\ job[h].request.endpoint = "/upload_batch"
    /\ \E i \in DOMAIN job[h].request.files :
          LET file == job[h].request.files[i]
          IN  ~(file.ext \in {"jpg", "jpeg", "png"} /\ file.size_ok /\ file.is_image)

\* C21: batch validation is all-or-nothing: a batch with a file that fails
\* validation (extension, size or image integrity) never gets past the route
\* into reading, saving or analysing a file, none of its files is stored, and
\* once it reaches validation (authenticated, admitted by the limiters) it is
\* answered 400.
C21_BatchAllOrNothing ==
    \A h \in Handlers :
        InvalidBatch(h) =>
            /\ pc[h] \in {"dispatch", "call_next", "respond"}
            /\ job[h].image_path = 0
            /\ pc[h] = "respond" =>
                  /\ resp.status_code \in {400, 401, 429}
                  /\ resp.status_code = 401 => ~get_current_user(job[h].request)
                  /\ resp.status_code = 400 => resp = invalid_file_error

\* C21 witness: a batch whose first file is valid and whose second is not was
\* answered 400 while an image of an earlier upload is stored.
C21_Witness ==
    \E h \in Handlers :
        /\ pc[h] = "respond"
        /\ InvalidBatch(h)
        /\ validate_uploaded_file(job[h].request.files[1])
        /\ resp = invalid_file_error
        /\ reports # {}
        /\ job[h].image_path = 0

\* handler h serves a request for a protected endpoint without valid credentials
Unauthenticated(h) ==
    /\ job[h].request.endpoint \in Protected
    /\ job[h].request.credentials # "valid"

C27_ReaderConstructedOnce ==
    [][/\ readers_built' <= 1
       /\ ocr_reader = "Reader" => (ocr_reader' = "Reader" /\ readers_built' = readers_built)
       /\ \A h \in Handlers :
             (pc[h] = "get_ocr_reader" /\ pc'[h] # "get_ocr_reader" /\ ocr_reader = "Reader")
                 => (pc'[h] = "commit" /\ job'[h].reader = "Reader")]_vars

\* C27 witness: between the two files of a batch, whose first extraction
\* constructed the recognizer, the extraction of another upload took the same
\* handle.
C27_Witness ==
    \E h, g \in Handlers :
        /\ h # g
        /\ pc[g] = "read_file"
        /\ job[g].image_path # 0
        /\ pc[h] = "commit"
        /\ job[h].reader = "Reader"
        /\ readers_built = 1

\* C30: a single-image upload is atomic with respect to failure: when the
\* handler of /upload answers with an error after it saved the image, neither
\* the image file nor a report of that upload remains, and every stored
\* report refers to an image file that is still there.
C30_FailedUploadLeavesNothing ==
    /\ \A h \in Handlers :
          (/\ job[h].request.endpoint = "/upload"
           /\ pc[h] = "respond"
           /\ resp.status_code >= 400
           /\ job[h].image_path # 0)
              => (job[h].image_path \notin disk /\ job[h].image_path \notin reports)
    /\ reports \subseteq disk

====
